---------------------------- MODULE Spec2Model ----------------------------
(***************************************************************************)
(* Model of the AC signal laboratory: the App orchestrator (simulation     *)
(* state, animation loop, reset), the KnobControl text/slider controls,    *)
(* the power statistics, the angles and powers of the two diagrams, the    *)
(* samples of the Oscilloscope and the analyzeCircuit service call.        *)
(*                                                                         *)
(* Numbers.  A JavaScript number is modelled as an integer count of        *)
(* thousandths: 120.00 is 120000, -0.125 is -125.  Every value the model   *)
(* feeds in has at most three decimals, so sums, differences, comparisons  *)
(* and clamps are exact.  Sines, cosines, square roots and what is         *)
(* computed from them are kept to a fixed number of decimals, with a mark  *)
(* that tells whether the double holds that decimal exactly.               *)
(* NaN is the record field nan of a parse result.                          *)
(*                                                                         *)
(* Text.  The content of a text field is a sequence of one-character       *)
(* strings, so that parsing and formatting are computed, not assumed.      *)
(*                                                                         *)
(* Time.  performance.now() and the requestAnimationFrame time stamps are  *)
(* one monotone clock counted in milliseconds (variable now).  timeOffset  *)
(* is counted in units of 1/400000 s, so that                              *)
(*   deltaTime * speedFactor = ((time - lastTime)/1000) * (simSpeed/400)   *)
(* is the integer (time - lastTime) * simSpeed.                            *)
(***************************************************************************)
EXTENDS Integers, Sequences, FiniteSets, TLC

\* The thousandths that represent the number n.
Num(n) == n * 1000

-----------------------------------------------------------------------------
(* JavaScript number <-> text, as used by KnobControl *)

Digits == <<"0", "1", "2", "3", "4", "5", "6", "7", "8", "9">>

IsDigit(c) == \E i \in 1..10 : Digits[i] = c

DigitVal(c) == (CHOOSE i \in 1..10 : Digits[i] = c) - 1

Abs(x) == IF x < 0 THEN -x ELSE x

MathMax(a, b) == IF a >= b THEN a ELSE b

MathMin(a, b) == IF a <= b THEN a ELSE b

RECURSIVE SkipSpaces(_)
SkipSpaces(s) ==
    IF s # <<>> /\ Head(s) = " " THEN SkipSpaces(Tail(s)) ELSE s

\* Longest prefix of s made of decimal digits.
RECURSIVE TakeDigits(_)
TakeDigits(s) ==
    IF s # <<>> /\ IsDigit(Head(s)) THEN <<Head(s)>> \o TakeDigits(Tail(s)) ELSE <<>>

\* Value of a digit string, most significant digit first.
RECURSIVE DigitsToInt(_)
DigitsToInt(ds) ==
    IF ds = <<>> THEN 0
    ELSE DigitsToInt(SubSeq(ds, 1, Len(ds) - 1)) * 10 + DigitVal(ds[Len(ds)])

\* The first three fraction digits as thousandths (digits past the third are
\* below the model's resolution; no input of the model has any).
FracToMilli(ds) ==
    LET d(i) == IF i <= Len(ds) THEN DigitVal(ds[i]) ELSE 0
    IN  d(1) * 100 + d(2) * 10 + d(3)

NaN == [nan |-> TRUE, num |-> 0]

Number(n) == [nan |-> FALSE, num |-> n]

isNaN(r) == r.nan

\* parseFloat: leading blanks skipped, optional sign, the longest prefix
\* digits [ "." digits ], anything after it ignored; NaN when that prefix holds
\* no digit.  (Exponents and "Infinity" are outside the typed alphabet.)
parseFloat(text) ==
    LET s0   == SkipSpaces(text)
        neg  == s0 # <<>> /\ Head(s0) = "-"
        s1   == IF s0 # <<>> /\ Head(s0) \in {"-", "+"} THEN Tail(s0) ELSE s0
        int  == TakeDigits(s1)
        s2   == SubSeq(s1, Len(int) + 1, Len(s1))
        frac == IF s2 # <<>> /\ Head(s2) = "." THEN TakeDigits(Tail(s2)) ELSE <<>>
        mag  == Num(DigitsToInt(int)) + FracToMilli(frac)
    IN  IF int = <<>> /\ frac = <<>> THEN NaN
        ELSE Number(IF neg THEN -mag ELSE mag)

\* Decimal digits of a natural number.
RECURSIVE NatToText(_)
NatToText(n) ==
    IF n < 10 THEN <<Digits[n + 1]>>
    ELSE NatToText(n \div 10) \o <<Digits[(n % 10) + 1]>>

\* Number.prototype.toFixed(2): sign, then the magnitude rounded to the
\* nearest hundredth (a tie goes to the larger magnitude), two decimals.
toFixed2(x) ==
    LET h == (Abs(x) + 5) \div 10
    IN  (IF x < 0 THEN <<"-">> ELSE <<>>)
        \o NatToText(h \div 100)
        \o <<".", Digits[((h \div 10) % 10) + 1], Digits[(h % 10) + 1]>>

\* Number.prototype.toFixed(1) of a count of thousandths.
toFixed1(x) ==
    LET t == (Abs(x) + 50) \div 100
    IN  (IF x < 0 THEN <<"-">> ELSE <<>>)
        \o NatToText(t \div 10) \o <<".", Digits[(t % 10) + 1]>>

\* Number.prototype.toFixed(3) of a count of billionths.
toFixed3(x) ==
    LET t == (Abs(x) + 500000) \div 1000000
    IN  (IF x < 0 THEN <<"-">> ELSE <<>>)
        \o NatToText(t \div 1000)
        \o <<".", Digits[((t \div 100) % 10) + 1], Digits[((t \div 10) % 10) + 1],
             Digits[(t % 10) + 1]>>

-----------------------------------------------------------------------------
(* Math: sines, cosines, square roots and products in finite precision.     *)
(* A sine, a cosine or a square root is a count of billionths (1e-9); an    *)
(* angle is a count of thousandths of a degree.  The value a double holds   *)
(* differs from the count by rounding; the field exact of a result tells    *)
(* whether the double is that decimal exactly.                              *)

One == 1000000000

\* The product of two numbers below 10^9 given in three-digit limbs, over
\* 10^9 and rounded, in parts that stay inside 32 bits.
MulLimbs(x2, x1, x0, y2, y1, y0) ==
    x2 * y2 * 1000 + x2 * y1 + x1 * y2
    + (x2 * y0 + x1 * y1 + x0 * y2
       + (x1 * y0 + x0 * y1 + (x0 * y0) \div 1000) \div 1000 + 500)
      \div 1000

\* sx * sy / 10^9 rounded, for two counts of billionths from 0 to 10^9
\* (sines and cosines).
MulMagnitudes(sx, sy) ==
    MulLimbs(sx \div 1000000, (sx \div 1000) % 1000, sx % 1000,
             sy \div 1000000, (sy \div 1000) % 1000, sy % 1000)

\* The product of ah units and al thousandths with a number below 2 * 10^9
\* given in three-digit limbs, over 10^9, the digits past the third dropped.
MulMilliLimbs(ah, al, m2, m1, m0) ==
    ah * m2
    + (al * m2 + ah * m1 + (al * m1 + ah * m0 + (al * m0) \div 1000) \div 1000)
      \div 1000

\* sa * sm / 10^9 for sa thousandths (0 <= sa <= 4 * 10^7) and sm billionths
\* (0 <= sm <= 2 * 10^9).
MulMilliMagnitudes(sa, sm) ==
    MulMilliLimbs(sa \div 1000, sa % 1000,
                  sm \div 1000000, (sm \div 1000) % 1000, sm % 1000)

\* a * m / 10^9: a count of thousandths (|a| <= 4 * 10^7) times a count of
\* billionths (|m| <= 2 * 10^9) is a count of thousandths, the digits past the
\* third dropped (so that a later toFixed rounds once, not twice).
MulNano(a, m) ==
    IF (a < 0) = (m < 0) THEN MulMilliMagnitudes(Abs(a), Abs(m))
    ELSE -MulMilliMagnitudes(Abs(a), Abs(m))

\* sin of 0, 1, ..., 90 degrees, in billionths.
SIN_TABLE ==
    << 0, 17452406, 34899497, 52335956, 69756474, 87155743,
       104528463, 121869343, 139173101, 156434465, 173648178, 190808995,
       207911691, 224951054, 241921896, 258819045, 275637356, 292371705,
       309016994, 325568154, 342020143, 358367950, 374606593, 390731128,
       406736643, 422618262, 438371147, 453990500, 469471563, 484809620,
       500000000, 515038075, 529919264, 544639035, 559192903, 573576436,
       587785252, 601815023, 615661475, 629320391, 642787610, 656059029,
       669130606, 681998360, 694658370, 707106781, 719339800, 731353702,
       743144825, 754709580, 766044443, 777145961, 788010754, 798635510,
       809016994, 819152044, 829037573, 838670568, 848048096, 857167301,
       866025404, 874619707, 882947593, 891006524, 898794046, 906307787,
       913545458, 920504853, 927183855, 933580426, 939692621, 945518576,
       951056516, 956304756, 961261696, 965925826, 970295726, 974370065,
       978147601, 981627183, 984807753, 987688341, 990268069, 992546152,
       994521895, 996194698, 997564050, 998629535, 999390827, 999847695,
       1000000000 >>

\* f thousandths of a degree in radians, in billionths.
SmallAngle(f) == f * 17453 + (f * 293 + 500) \div 1000

\* b^2 for b below one degree (at most 2 * 10^7 billionths), in billionths.
SmallSquare(b) ==
    ((b \div 1000) * (b \div 1000) + (2 * (b \div 1000) * (b % 1000)) \div 1000
     + 500) \div 1000

\* cos b from b^2, for b below one degree: 1 - b^2/2 + b^4/24.
SmallCos(b2) == One - b2 \div 2 + ((b2 \div 1000) * (b2 \div 1000)) \div 24000

\* sin b from b and b^2, for b below one degree: b - b^3/6.
SmallSin(b, b2) == b - ((b2 \div 10) * (b \div 1000)) \div 600000

\* sin(a + b) = sin a cos b + cos a sin b, for b below one degree with
\* square b2.
SinOfSum(sina, cosa, b, b2) ==
    MulMagnitudes(sina, SmallCos(b2)) + MulMagnitudes(cosa, SmallSin(b, b2))

\* sin(a + b) for a whole degrees and b radians (in billionths) beyond them.
SinBeyond(a, b) ==
    SinOfSum(SIN_TABLE[a + 1], SIN_TABLE[91 - a], b, SmallSquare(b))

\* sin of an angle of 0..90 degrees: the table at whole degrees, and between
\* them the sine of the whole degrees plus the rest (below one degree, in
\* radians, by its series).  Within 3 billionths of the sine.
SinQuadrant(md) ==
    IF md % 1000 = 0 THEN SIN_TABLE[md \div 1000 + 1]
    ELSE SinBeyond(md \div 1000, SmallAngle(md % 1000))

\* The angle r of 0..360 degrees folded into the first quadrant.
FoldQuadrant(r) ==
    IF r <= 90000 THEN r
    ELSE IF r <= 180000 THEN 180000 - r
    ELSE IF r <= 270000 THEN r - 180000
    ELSE 360000 - r

\* The value of sin at md thousandths of a degree, in billionths.
SinNano(md) ==
    (IF md % 360000 <= 180000 THEN 1 ELSE -1) * SinQuadrant(FoldQuadrant(md % 360000))

\* Math.sin((deg * Math.PI) / 180) for -180 < deg <= 180.  The double is the
\* decimal exactly at 0 and at +-90 degrees only: Math.PI lies below pi, so
\* Math.sin(Math.PI) is 1.2246e-16 and not 0, Math.sin of 30 degrees is
\* 0.49999999999999994, and so on.
MathSinDeg(md) ==
    [v |-> SinNano(md), exact |-> md \in {0, 90000, -90000}]

\* Math.cos((deg * Math.PI) / 180) for -180 < deg <= 180.  The double is the
\* decimal exactly at 0 (1) and at 180 degrees (-1) only: Math.cos of 90
\* degrees is 6.1232e-17, of 60 degrees 0.5000000000000001.
MathCosDeg(md) ==
    [v |-> SinNano(md + 90000), exact |-> md \in {0, 180000}]

\* s * t for a number s that the double holds exactly and the sine or cosine
\* t: thousandths.  0 * t is 0 exactly.
TimesTrig(s, t) ==
    [v |-> MulNano(s, t.v), exact |-> s = 0 \/ t.exact]

-----------------------------------------------------------------------------
(* constants.ts *)

DEFAULT_VOLTAGE ==
    [amplitude |-> Num(120), frequency |-> Num(60), phase |-> 0,
     dcOffset |-> 0, waveform |-> "sine"]

DEFAULT_CURRENT ==
    [amplitude |-> Num(5), frequency |-> Num(60), phase |-> Num(-30),
     dcOffset |-> 0, waveform |-> "sine"]

INITIAL_STATE ==
    [voltage |-> DEFAULT_VOLTAGE, current |-> DEFAULT_CURRENT,
     timeWindow |-> 40, isPlaying |-> TRUE]

\* useState(20) and setSimSpeed(20)
DEFAULT_SIM_SPEED == 20

-----------------------------------------------------------------------------
(* State *)

VARIABLES
    state,        \* App: useState<SimulationState>(INITIAL_STATE)
    timeOffset,   \* App: useState(0), in units of 1/400000 s
    simSpeed,     \* App: useState(20), the speed slider 0..100
    lastTime,     \* animation effect: let lastTime = performance.now()
    now,          \* the wall clock, ms
    inputValue,   \* KnobControl: text of each control's text field
    isEditing,    \* KnobControl: editing flag of each control
    focus,        \* the text field that holds the keyboard focus, or "none"
    stats,        \* App: the powerStats memo of the last render
    analysis,     \* geminiService: one analyzeCircuit call
    lastOp,       \* history: the operation that produced this state
    lastTick,     \* history: clock value at the previous animate call, -1
                  \* before the first
    frozenSinceTick, \* history: clock time since that call (since mount before
                  \* the first) during which the simulation was stopped or at
                  \* speed 0
    frozenElapsed, \* history: the same, since lastTime was last assigned
    scope,        \* Oscilloscope: the data memo, with the calls that filled it
    phaseLoop,    \* one run of the two phase-normalization loops, by iteration
    powerTriangle \* PowerTriangleDiagram: its props and what it draws from them

vars == <<state, timeOffset, simSpeed, lastTime, now, inputValue, isEditing,
          focus, stats, analysis, lastOp, lastTick, frozenSinceTick,
          frozenElapsed, scope, phaseLoop, powerTriangle>>

-----------------------------------------------------------------------------
(* App: power statistics *)

\* Mutant of NormalizeUp: the loop test written with < for <=.
RECURSIVE NormalizeUpStrict(_)
NormalizeUpStrict(x) ==
    IF x < Num(-180) THEN NormalizeUpStrict(x + Num(360)) ELSE x

\* while (x <= -180) x += 360
RECURSIVE NormalizeUp(_)
NormalizeUp(x) == IF x <= Num(-180) THEN NormalizeUp(x + Num(360)) ELSE x

\* while (x > 180) x -= 360
RECURSIVE NormalizeDown(_)
NormalizeDown(x) == IF x > Num(180) THEN NormalizeDown(x - Num(360)) ELSE x

\* The two loops in sequence, as every phase-difference computation runs them.
NormalizePhase(x) == NormalizeDown(NormalizeUp(x))

Resistive == [statusType |-> "Resistivo", statusLag |-> "En fase"]

Inductive == [statusType |-> "Inductivo", statusLag |-> "En atraso"]

Capacitive == [statusType |-> "Capacitivo", statusLag |-> "En adelanto"]

\* Mutant of Classify: the resistive band closed at 0.1 (<= for <).
ClassifyInclusive(phaseDiffDeg) ==
    IF Abs(phaseDiffDeg) <= 100 THEN Resistive
    ELSE IF phaseDiffDeg > 0 THEN Inductive
    ELSE Capacitive

\* Mutant of Classify: lead and lag exchanged.
ClassifyLeadForLag(phaseDiffDeg) ==
    IF Abs(phaseDiffDeg) < 100 THEN Resistive
    ELSE IF phaseDiffDeg > 0 THEN Capacitive
    ELSE Inductive

\* if (absPhase < 0.1) ... else if (phaseDiffDeg > 0) ... else ...
Classify(phaseDiffDeg) ==
    IF Abs(phaseDiffDeg) < 100 THEN Resistive
    ELSE IF phaseDiffDeg > 0 THEN Inductive
    ELSE Capacitive

\* a * b for two counts of thousandths, in thousandths, computed in parts that
\* stay inside TLC's 32-bit integers.  Exact whenever the product has at most
\* three decimals, as it does when one factor is a whole number.
Times(a, b) == a * (b \div 1000) + (a * (b % 1000)) \div 1000

\* Mutant of ReactivePower: the cosine taken for the sine.
ReactivePowerByCosine(S, phaseDiffDeg) == TimesTrig(S, MathCosDeg(phaseDiffDeg))

\* Mutant of ActivePower: the sine taken for the cosine.
ActivePowerBySine(S, phaseDiffDeg) == TimesTrig(S, MathSinDeg(phaseDiffDeg))

\* const P = S * Math.cos(phaseDiffRad), phaseDiffRad being
\* (phaseDiffDeg * Math.PI) / 180.
ActivePower(S, phaseDiffDeg) == TimesTrig(S, MathCosDeg(phaseDiffDeg))

\* const Q = S * Math.sin(phaseDiffRad)
ReactivePower(S, phaseDiffDeg) == TimesTrig(S, MathSinDeg(phaseDiffDeg))

\* The return of powerStats.  The fields phaseDiffDeg, S, P, Q and PF are the
\* unrounded locals of the computation; shown is the record the memo returns,
\* its numbers formatted; statusType and statusLag are returned as they are.
PowerStatsResult(phaseDiffDeg, S, P, Q, PF, status) ==
    [phaseDiffDeg |-> phaseDiffDeg,
     S |-> S,
     P |-> P,
     Q |-> Q,
     PF |-> PF,
     shown |-> [S |-> toFixed2(S), P |-> toFixed2(P.v), Q |-> toFixed2(Q.v),
                PF |-> toFixed3(Abs(PF.v)),
                phaseDiff |-> toFixed1(phaseDiffDeg)],
     statusType |-> status.statusType,
     statusLag |-> status.statusLag]

\* The locals of powerStats that follow phaseDiffDeg and S.
PowerStatsOf(phaseDiffDeg, S) ==
    PowerStatsResult(phaseDiffDeg, S, ActivePower(S, phaseDiffDeg),
                     ReactivePower(S, phaseDiffDeg), MathCosDeg(phaseDiffDeg),
                     Classify(phaseDiffDeg))

\* powerStats
powerStats(st) ==
    PowerStatsOf(NormalizePhase(st.voltage.phase - st.current.phase),
                 Times(st.voltage.amplitude, st.current.amplitude))

\* PowerTriangleDiagram: theta, the same subtraction and the same two loops.
theta(voltage, current) == NormalizePhase(voltage.phase - current.phase)

\* PowerTriangleDiagram: S_mag, P_mag and Q_mag, unrounded.
PowerTriangleDiagram(voltage, current) ==
    LET vRms == voltage.amplitude
        iRms == current.amplitude
        th == theta(voltage, current)
        S_mag == Times(vRms, iRms)
    IN  [theta |-> th,
         S_mag |-> S_mag,
         P_mag |-> TimesTrig(S_mag, MathCosDeg(th)),
         Q_mag |-> TimesTrig(S_mag, MathSinDeg(th))]

\* Mutant of delta: the two loops left out.
deltaUnnormalized(voltage, current) == current.phase - voltage.phase

\* PhasorDiagram: delta, the angle of the arc (current minus voltage).
delta(voltage, current) == NormalizePhase(current.phase - voltage.phase)

\* {absDelta > 0.1 && (<g> the arc's path and the label </g>)}
arcShown(voltage, current) == Abs(delta(voltage, current)) > 100

\* const sweepFlag = delta > 0 ? 0 : 1
sweepFlag(voltage, current) == IF delta(voltage, current) > 0 THEN 0 ELSE 1

\* const absDelta = Math.abs(delta); const largeArcFlag = absDelta > 180 ? 1 : 0
largeArcFlag(voltage, current) ==
    IF Abs(delta(voltage, current)) > Num(180) THEN 1 ELSE 0

\* Mutant of displayAngle: the subtraction of delta taken for it.
displayAngleReversed(voltage, current) ==
    NormalizePhase(current.phase - voltage.phase)

\* PhasorDiagram: displayAngle, the signed angle of the label.
displayAngle(voltage, current) == NormalizePhase(voltage.phase - current.phase)

-----------------------------------------------------------------------------
(* App: state updates *)

\* { ...base, ...updates }
Spread(base, updates) ==
    [f \in DOMAIN base \cup DOMAIN updates |->
        IF f \in DOMAIN updates THEN updates[f] ELSE base[f]]

\* Mutant of updateVoltage: the updates spread over the defaults instead of
\* over prev.voltage.
updateVoltageOverDefaults(prev, updates) ==
    [prev EXCEPT !.voltage = Spread(DEFAULT_VOLTAGE, updates)]

updateVoltage(prev, updates) ==
    [prev EXCEPT !.voltage = Spread(prev.voltage, updates)]

updateCurrent(prev, updates) ==
    [prev EXCEPT !.current = Spread(prev.current, updates)]

\* Mutant of updateFrequency: the current's frequency left out.
updateFrequencyVoltageOnly(prev, freq) ==
    [prev EXCEPT !.voltage = Spread(prev.voltage, [frequency |-> freq])]

updateFrequency(prev, freq) ==
    [prev EXCEPT !.voltage = Spread(prev.voltage, [frequency |-> freq]),
                 !.current = Spread(prev.current, [frequency |-> freq])]

-----------------------------------------------------------------------------
(* App: the five KnobControl instances and their props *)

Knobs == {"vAmp", "vPhase", "iAmp", "iPhase", "freq"}

KnobMin(k) ==
    CASE k \in {"vAmp", "iAmp"} -> 0
      [] k \in {"vPhase", "iPhase"} -> Num(-180)
      [] k = "freq" -> Num(1)

KnobMax(k) ==
    CASE k \in {"vAmp", "iAmp"} -> Num(200)
      [] k \in {"vPhase", "iPhase"} -> Num(180)
      [] k = "freq" -> Num(200)

\* value={...}
KnobValue(k, st) ==
    CASE k = "vAmp" -> st.voltage.amplitude
      [] k = "vPhase" -> st.voltage.phase
      [] k = "iAmp" -> st.current.amplitude
      [] k = "iPhase" -> st.current.phase
      [] k = "freq" -> st.voltage.frequency

\* onChange={...}: the state after the callback's setState
KnobOnChange(k, st, v) ==
    CASE k = "vAmp" -> updateVoltage(st, [amplitude |-> v])
      [] k = "vPhase" -> updateVoltage(st, [phase |-> v])
      [] k = "iAmp" -> updateCurrent(st, [amplitude |-> v])
      [] k = "iPhase" -> updateCurrent(st, [phase |-> v])
      [] k = "freq" -> updateFrequency(st, v)

-----------------------------------------------------------------------------
(* Bounds and inputs *)

\* The clock stops advancing at MaxNow.
MaxNow == 3

\* Positions the speed slider is moved to (an <input type="range"> 0..100).
SpeedValues == {0, 20, 100}

\* Texts a user types into a control: no number at all, a number above every
\* maximum followed by a unit letter, a negative number with three decimals.
TypedTexts ==
    { <<"a", "b", "c">>,
      <<"2", "5", "0", ".", "5", "V">>,
      <<"-", "0", ".", "1", "2", "5">> }

\* Value strings the range input of a control reports: inside [min, max] and
\* on the step grid, as the browser guarantees.
SliderTexts == { <<"6", "0">> }

-----------------------------------------------------------------------------
(* History record of an operation.  For a commit (blur, enter): the control, *)
(* the text it read and the numbers it passed to onChange.  For animate: the *)
(* clock time since the previous animate call (-1 if there was none) and how *)
(* much of the time since then the simulation was frozen.  For all: timeOffset before it.  The other  *)
(* operations on a control are recorded as "control".                        *)

Op(name, k, text, calls) ==
    [op |-> name, knob |-> k, text |-> text, calls |-> calls,
     prevOffset |-> timeOffset, sinceTick |-> 0, frozen |-> 0]

AppOp(name) == Op(name, "none", <<>>, <<>>)

-----------------------------------------------------------------------------
(* React: what a render after a handler does *)

\* The animation effect's dependency array [state.isPlaying, simSpeed].
LoopDepsChanged(st2, spd2) ==
    st2.isPlaying # state.isPlaying \/ spd2 # simSpeed

\* Mutant of LoopLastTime: lastTime kept across restarts of the loop (held
\* in a ref instead of the effect's closure).
LoopLastTimeKept(st2, spd2) == lastTime

\* The animation effect: cleanup, then let lastTime = performance.now().
LoopLastTime(st2, spd2) ==
    IF LoopDepsChanged(st2, spd2) THEN now ELSE lastTime

\* Mutant of SyncInputValue: the test of isEditing left out of the effect.
SyncInputValueWhileEditing(k, st2, edit2, inp2) ==
    IF KnobValue(k, st2) # KnobValue(k, state) \/ edit2[k] # isEditing[k]
    THEN toFixed2(KnobValue(k, st2))
    ELSE inp2[k]

\* KnobControl effect on [value, isEditing]: the text follows the prop
\* unless the control is being edited.  (value || 0) is value: no prop is NaN.
SyncInputValue(k, st2, edit2, inp2) ==
    IF /\ (KnobValue(k, st2) # KnobValue(k, state) \/ edit2[k] # isEditing[k])
       /\ ~edit2[k]
    THEN toFixed2(KnobValue(k, st2))
    ELSE inp2[k]

\* Mutant of MemoPowerStats: state.voltage left out of the dependency array.
MemoPowerStatsCurrentOnly(st2) ==
    IF st2.current # state.current THEN powerStats(st2) ELSE stats

\* The powerStats memo on [state.voltage, state.current].
MemoPowerStats(st2) ==
    IF st2.voltage # state.voltage \/ st2.current # state.current
    THEN powerStats(st2)
    ELSE stats

\* The state after a handler's updates st2, off2, spd2 (App) and inp2, edit2
\* (controls) are rendered and the effects have run.
Render(st2, off2, spd2, inp2, edit2, foc2, op) ==
    /\ state' = st2
    /\ timeOffset' = off2
    /\ simSpeed' = spd2
    /\ isEditing' = edit2
    /\ inputValue' = [k \in Knobs |-> SyncInputValue(k, st2, edit2, inp2)]
    /\ focus' = foc2
    /\ stats' = MemoPowerStats(st2)
    /\ lastTime' = LoopLastTime(st2, spd2)
    /\ frozenElapsed' = IF LoopDepsChanged(st2, spd2) THEN 0 ELSE frozenElapsed
    /\ lastOp' = op
    /\ UNCHANGED <<now, lastTick, frozenSinceTick, analysis, scope, phaseLoop,
                   powerTriangle>>

-----------------------------------------------------------------------------
(* App: animation loop *)

\* if (state.isPlaying && simSpeed > 0)
Running(st, spd) == st.isPlaying /\ spd > 0

\* Mutant of Advance: the speed factor left out.
AdvanceUnscaled(prev, time, last, spd) == prev + (time - last)

\* Mutant of Advance: the delta taken the wrong way round.
AdvanceBackwards(prev, time, last, spd) == prev + (last - time) * spd

\* prev + deltaTime * speedFactor
Advance(prev, time, last, spd) == prev + (time - last) * spd

\* animate(time): one requestAnimationFrame callback, at clock value now.
animate ==
    /\ timeOffset' = IF Running(state, simSpeed)
                     THEN Advance(timeOffset, now, lastTime, simSpeed)
                     ELSE timeOffset
    /\ lastTime' = now
    /\ lastTick' = now
    /\ frozenSinceTick' = 0
    /\ frozenElapsed' = 0
    /\ lastOp' = [AppOp("animate") EXCEPT
                    !.sinceTick = IF lastTick < 0 THEN -1 ELSE now - lastTick,
                    !.frozen = frozenSinceTick]
    /\ UNCHANGED <<state, simSpeed, now, inputValue, isEditing, focus, stats,
                   analysis, scope, phaseLoop,
                   powerTriangle>>

\* The wall clock advances by one unit between events.
Clock ==
    /\ now < MaxNow
    /\ now' = now + 1
    /\ frozenSinceTick' =
           IF Running(state, simSpeed) THEN frozenSinceTick ELSE frozenSinceTick + 1
    /\ frozenElapsed' =
           IF Running(state, simSpeed) THEN frozenElapsed ELSE frozenElapsed + 1
    /\ lastOp' = AppOp("clock")
    /\ UNCHANGED <<state, timeOffset, simSpeed, lastTime, inputValue, isEditing,
                   focus, stats, analysis, lastTick, scope, phaseLoop,
                   powerTriangle>>

-----------------------------------------------------------------------------
(* App: header controls.  A pointer or keyboard action on another control   *)
(* first takes the focus away from a text field (its blur handler runs as   *)
(* its own step), so these run with no text field focused.                  *)

togglePlay ==
    /\ focus = "none"
    /\ Render([state EXCEPT !.isPlaying = ~state.isPlaying], timeOffset, simSpeed,
              inputValue, isEditing, focus, AppOp("togglePlay"))

setSimSpeed ==
    \E v \in SpeedValues \ {simSpeed} :
        /\ focus = "none"
        /\ Render(state, timeOffset, v, inputValue, isEditing, focus,
                  AppOp("setSimSpeed"))

\* Mutant of resetSimulation: a state with half the time window restored.
resetSimulationHalfWindow ==
    /\ focus = "none"
    /\ Render([INITIAL_STATE EXCEPT !.timeWindow = 20], 0, DEFAULT_SIM_SPEED,
              inputValue, isEditing, focus, AppOp("reset"))

\* Mutant of resetSimulation: setSimSpeed(20) left out.
resetSimulationKeepSpeed ==
    /\ focus = "none"
    /\ Render(INITIAL_STATE, 0, simSpeed, inputValue, isEditing, focus,
              AppOp("reset"))

resetSimulation ==
    /\ focus = "none"
    /\ Render(INITIAL_STATE, 0, DEFAULT_SIM_SPEED, inputValue, isEditing, focus,
              AppOp("reset"))

-----------------------------------------------------------------------------
(* KnobControl *)

\* Mutant of Clamp: the upper bound left out (Math.max(min, num)).
ClampBelowOnly(r, min, max) ==
    IF isNaN(r) THEN NaN ELSE Number(MathMax(min, r.num))

\* Math.max(min, Math.min(max, num)); NaN stays NaN.
Clamp(r, min, max) ==
    IF isNaN(r) THEN NaN ELSE Number(MathMax(min, MathMin(max, r.num)))

\* Mutant of CommitNumber: the isNaN test left out.
CommitNumberNoRevert(text, value, min, max) == Clamp(parseFloat(text), min, max)

\* commitValue: the number it passes to onChange and shows.
CommitNumber(text, value, min, max) ==
    LET parsed == parseFloat(text)
        num == IF isNaN(parsed) THEN Number(value) ELSE parsed
    IN  Clamp(num, min, max)

\* The state after onChange(r).  A NaN would be stored as it is, which the
\* model's numbers cannot hold: lastOp.calls records it.
Passed(k, st, r) == KnobOnChange(k, st, r.num)

onFocus(k) ==
    /\ focus = "none"
    /\ Render(state, timeOffset, simSpeed, inputValue,
              [isEditing EXCEPT ![k] = TRUE], k, AppOp("control"))

handleInputChange(k) ==
    \E text \in TypedTexts :
        /\ focus = k
        /\ Render(state, timeOffset, simSpeed, [inputValue EXCEPT ![k] = text],
                  isEditing, focus, AppOp("control"))

\* onBlur={commitValue}
onBlur(k) ==
    /\ focus = k
    /\ LET num == CommitNumber(inputValue[k], KnobValue(k, state), KnobMin(k), KnobMax(k))
       IN  Render(Passed(k, state, num), timeOffset, simSpeed,
                  [inputValue EXCEPT ![k] = toFixed2(num.num)],
                  [isEditing EXCEPT ![k] = FALSE], "none",
                  Op("blur", k, inputValue[k], <<num>>))

\* handleKeyDown with Enter: commitValue(), then blur(), whose blur event
\* runs commitValue() again inside the same handler, from the same render:
\* both read the same inputValue and value.
handleKeyDown(k) ==
    /\ focus = k
    /\ LET num == CommitNumber(inputValue[k], KnobValue(k, state), KnobMin(k), KnobMax(k))
       IN  Render(Passed(k, Passed(k, state, num), num), timeOffset, simSpeed,
                  [inputValue EXCEPT ![k] = toFixed2(num.num)],
                  [isEditing EXCEPT ![k] = FALSE], "none",
                  Op("enter", k, inputValue[k], <<num, num>>))

\* The range input: onChange(parseFloat(e.target.value))
onSlider(k) ==
    \E text \in SliderTexts :
        /\ focus = "none"
        /\ LET num == parseFloat(text)
           IN  Render(Passed(k, state, num), timeOffset, simSpeed, inputValue,
                      isEditing, focus, AppOp("control"))

\* onClick={() => onChange(min)}
onClickMin(k) ==
    /\ focus = "none"
    /\ Render(Passed(k, state, Number(KnobMin(k))), timeOffset, simSpeed, inputValue,
              isEditing, focus, AppOp("control"))

\* {min < 0 && max > 0 && ... onClick={() => onChange(0)}
onClickZero(k) ==
    /\ focus = "none"
    /\ KnobMin(k) < 0 /\ KnobMax(k) > 0
    /\ Render(Passed(k, state, Number(0)), timeOffset, simSpeed, inputValue,
              isEditing, focus, AppOp("control"))

\* onClick={() => onChange(max)}
onClickMax(k) ==
    /\ focus = "none"
    /\ Render(Passed(k, state, Number(KnobMax(k))), timeOffset, simSpeed, inputValue,
              isEditing, focus, AppOp("control"))

KnobStep(k) ==
    \/ onFocus(k)
    \/ handleInputChange(k)
    \/ onBlur(k)
    \/ handleKeyDown(k)
    \/ onSlider(k)
    \/ onClickMin(k)
    \/ onClickZero(k)
    \/ onClickMax(k)

-----------------------------------------------------------------------------
(* Specifications *)

NoValue ==
    [explanation |-> "", impedance |-> "", powerFactor |-> "", realPower |-> "",
     reactivePower |-> ""]

\* No call of analyzeCircuit is in progress; the API key is configured.
NoAnalysis ==
    [pc |-> "idle", apiKey |-> "key", request |-> <<>>, outcome |-> "pending",
     value |-> NoValue, error |-> "", failure |-> "none"]

\* The data memo of the Oscilloscope has not been evaluated.
NoScope == [points |-> <<>>, converted |-> <<>>, calls |-> <<>>]

\* A number of the normalization loops: v thousandths, or, with huge = 1 or
\* -1, a double above 2^62 + 1024 or below its negative (1e19, say), which the
\* thousandths of the model cannot hold.
LoopNumber(v) == [huge |-> 0, v |-> v]

\* No run of the phase-normalization loops is followed.
NoPhaseLoop ==
    [pc |-> "none", x |-> LoopNumber(0), fromControls |-> FALSE,
     ups |-> 0, downs |-> 0]

\* The PowerTriangleDiagram is not followed.
NoTriangle == [pc |-> "none"]

\* The state of the App component with signals st at simulated time off,
\* nothing being edited.
AppAt(st, off) ==
    /\ state = st
    /\ timeOffset = off
    /\ simSpeed = DEFAULT_SIM_SPEED
    /\ now = 0
    /\ lastTime = 0
    /\ inputValue = [k \in Knobs |-> toFixed2(KnobValue(k, st))]
    /\ isEditing = [k \in Knobs |-> FALSE]
    /\ focus = "none"
    /\ lastTick = -1
    /\ frozenSinceTick = 0
    /\ frozenElapsed = 0

\* The application after its first render.
Mounted(st) ==
    /\ scope = NoScope
    /\ AppAt(st, 0)

Init ==
    /\ Mounted(INITIAL_STATE)
    /\ phaseLoop = NoPhaseLoop
    /\ powerTriangle = NoTriangle
    /\ stats = powerStats(INITIAL_STATE)
    /\ analysis = NoAnalysis
    /\ lastOp = [op |-> "mount", knob |-> "none", text |-> <<>>, calls |-> <<>>,
                 prevOffset |-> 0, sinceTick |-> 0, frozen |-> 0]

\* The control a user operates while the clock runs.
TimedKnobs == {"vPhase"}

\* The whole application: clock, animation loop, header controls, controls.
Next ==
    \/ Clock
    \/ animate
    \/ togglePlay
    \/ setSimSpeed
    \/ resetSimulation
    \/ \E k \in TimedKnobs : KnobStep(k)

Spec == Init /\ [][Next]_vars

\* The parameter controls and reset, at one instant.
NextControls ==
    \/ resetSimulation
    \/ \E k \in Knobs : KnobStep(k)

SpecControls == Init /\ [][NextControls]_vars

-----------------------------------------------------------------------------
(* The power statistics as a function of the two signals *)

\* Phases handed to the power statistics, normalized or not (thousandths of
\* a degree).
PhaseInputs ==
    { Num(-900), Num(-540), Num(-360), Num(-180), -100, -40, 0, 40, 99, 100,
      Num(5), Num(180), Num(360), Num(540), Num(720) + 100 }

\* let statusType = ""; let statusLag = "": nothing computed yet.
NoStats ==
    [phaseDiffDeg |-> 0, S |-> 0, P |-> [v |-> 0, exact |-> TRUE],
     Q |-> [v |-> 0, exact |-> TRUE], PF |-> [v |-> 0, exact |-> TRUE],
     shown |-> [S |-> <<>>, P |-> <<>>, Q |-> <<>>, PF |-> <<>>, phaseDiff |-> <<>>],
     statusType |-> "", statusLag |-> ""]

\* RMS amplitudes handed to the power statistics (thousandths).
VoltageAmplitudes == { 0, Num(120), Num(200) }

CurrentAmplitudes == { 0, Num(5) }

InitPower ==
    /\ \E vp \in PhaseInputs, cp \in PhaseInputs,
          va \in VoltageAmplitudes, ca \in CurrentAmplitudes :
           Mounted([INITIAL_STATE EXCEPT !.voltage.phase = vp, !.current.phase = cp,
                                         !.voltage.amplitude = va,
                                         !.current.amplitude = ca])
    /\ stats = NoStats
    /\ phaseLoop = NoPhaseLoop
    /\ powerTriangle = NoTriangle
    /\ analysis = NoAnalysis
    /\ lastOp = [op |-> "props", knob |-> "none", text |-> <<>>, calls |-> <<>>,
                 prevOffset |-> 0, sinceTick |-> 0, frozen |-> 0]

\* The render that evaluates the powerStats memo.
renderPowerStats ==
    /\ lastOp.op = "props"
    /\ stats' = powerStats(state)
    /\ lastOp' = AppOp("render")
    /\ UNCHANGED <<state, timeOffset, simSpeed, lastTime, now, inputValue,
                   isEditing, focus, analysis, lastTick, frozenSinceTick,
                   frozenElapsed, scope, phaseLoop,
                   powerTriangle>>

NextPower == renderPowerStats

SpecPower == InitPower /\ [][NextPower]_vars

-----------------------------------------------------------------------------
(* The phase-normalization loops, iteration by iteration.  The same two     *)
(* loops follow the subtraction in powerStats (phaseDiffDeg), in             *)
(* PhasorDiagram (delta, displayAngle) and in PowerTriangleDiagram (theta).  *)

\* The iteration counters stop counting at MaxIterations.
MaxIterations == 4

\* A double above 2^62 + 1024 (sign 1) or below its negative (sign -1).
Huge(sign) == [huge |-> sign, v |-> 0]

\* x <= -180
AtMostMinus180(x) == IF x.huge # 0 THEN x.huge < 0 ELSE x.v <= Num(-180)

\* x > 180
Above180(x) == IF x.huge # 0 THEN x.huge > 0 ELSE x.v > Num(180)

\* x += d, x -= d for d = 360.  From 2^62 on the doubles are 1024 apart: the
\* sum of a double beyond 2^62 and 360 rounds back to that double.
PlusEquals(x, d) == IF x.huge # 0 THEN x ELSE LoopNumber(x.v + d)

\* Phases handed to a computation: what the controls produce (-180 .. 180),
\* and props beyond it.
LoopPhases ==
    { Num(-180), Num(-30), -125, 0, Num(90), Num(180),
      Num(-900), Num(540), Num(720) + 100 }

\* A phase that a control can have produced (min={-180} max={180}).
FromControl(phase) == KnobMin("vPhase") <= phase /\ phase <= KnobMax("vPhase")

\* let phaseDiffDeg = state.voltage.phase - state.current.phase: the loops are
\* about to run on x.
StartLoop(x, fromControls) ==
    [pc |-> "first", x |-> x, fromControls |-> fromControls, ups |-> 0, downs |-> 0]

\* The computation is entered with two phases the state of the model holds,
\* or with a phase difference beyond 2^62: a value of the props that the
\* thousandths of the model cannot hold, the App state being left as it is.
InitNormalize ==
    /\ \/ \E vp \in LoopPhases, cp \in LoopPhases :
             /\ Mounted([INITIAL_STATE EXCEPT !.voltage.phase = vp,
                                              !.current.phase = cp])
             /\ phaseLoop = StartLoop(LoopNumber(vp - cp),
                                      FromControl(vp) /\ FromControl(cp))
       \/ \E sign \in {-1, 1} :
             /\ Mounted(INITIAL_STATE)
             /\ phaseLoop = StartLoop(Huge(sign), FALSE)
    /\ powerTriangle = NoTriangle
    /\ stats = NoStats
    /\ analysis = NoAnalysis
    /\ lastOp = [op |-> "props", knob |-> "none", text |-> <<>>, calls |-> <<>>,
                 prevOffset |-> 0, sinceTick |-> 0, frozen |-> 0]

LoopFrame ==
    UNCHANGED <<state, timeOffset, simSpeed, lastTime, now, inputValue,
                isEditing, focus, stats, analysis, lastOp, lastTick,
                frozenSinceTick, frozenElapsed, scope, powerTriangle>>

\* while (phaseDiffDeg <= -180) phaseDiffDeg += 360: one iteration.
addTurn ==
    /\ phaseLoop.pc = "first"
    /\ AtMostMinus180(phaseLoop.x)
    /\ phaseLoop' = [phaseLoop EXCEPT !.x = PlusEquals(@, Num(360)),
                                      !.ups = MathMin(@ + 1, MaxIterations)]
    /\ LoopFrame

\* The test of the first loop fails: on to the second.
leaveFirstLoop ==
    /\ phaseLoop.pc = "first"
    /\ ~AtMostMinus180(phaseLoop.x)
    /\ phaseLoop' = [phaseLoop EXCEPT !.pc = "second"]
    /\ LoopFrame

\* while (phaseDiffDeg > 180) phaseDiffDeg -= 360: one iteration.
subtractTurn ==
    /\ phaseLoop.pc = "second"
    /\ Above180(phaseLoop.x)
    /\ phaseLoop' = [phaseLoop EXCEPT !.x = PlusEquals(@, -Num(360)),
                                      !.downs = MathMin(@ + 1, MaxIterations)]
    /\ LoopFrame

\* The test of the second loop fails: the value is normalized.
leaveSecondLoop ==
    /\ phaseLoop.pc = "second"
    /\ ~Above180(phaseLoop.x)
    /\ phaseLoop' = [phaseLoop EXCEPT !.pc = "done"]
    /\ LoopFrame

NextNormalize ==
    \/ addTurn
    \/ leaveFirstLoop
    \/ subtractTurn
    \/ leaveSecondLoop

\* The loops run in one synchronous computation: a step that can be taken is
\* taken.
SpecNormalize == InitNormalize /\ [][NextNormalize]_vars /\ WF_vars(NextNormalize)

-----------------------------------------------------------------------------
(* PowerTriangleDiagram: the auto-scaling and the lengths it draws.  An     *)
(* amplitude of its props is v thousandths times 10^e: e = 0 for the        *)
(* numbers the model holds, e = -160 for a positive double far below a      *)
(* thousandth (1.2e-158, 5e-160), which the text field of a control accepts *)
(* like any other number from 0 to its maximum.  The product of two such    *)
(* amplitudes is a subnormal double near 1e-320: above 0, and 120 divided   *)
(* by it is above the largest double.                                       *)

\* const MAX_R = 120
MAX_R == 120

\* const LINE_OFFSET = ARROW_LEN - ARROW_INSET, with ARROW_LEN = 14 and
\* ARROW_INSET = 2
LINE_OFFSET == 14 - 2

Amplitude(v, e) == [v |-> v, e |-> e]

\* A number of the drawing: v thousandths (a scale or a ratio: v billionths),
\* or Infinity of either sign, or NaN.
Finite(v) == [kind |-> "finite", v |-> v]

Infinite == [kind |-> "Infinity", v |-> 0]

NotANumber == [kind |-> "NaN", v |-> 0]

\* a / b in billionths, the digits past the ninth dropped, for two counts of
\* the same unit with 0 <= a, 0 < b, both below 2 * 10^6, and a / b below 2.
DivNano(a, b) ==
    LET q1 == (a * 1000) \div b
        r1 == (a * 1000) % b
        q2 == (r1 * 1000) \div b
        r2 == (r1 * 1000) % b
        q3 == (r2 * 1000) \div b
    IN  q1 * 1000000 + q2 * 1000 + q3

\* Math.sqrt(p * p + q * q) for two counts of thousandths below 10^6 in
\* magnitude, rounded to the nearest thousandth.  A square is held as
\* <<millions, rest>>; the root is the largest r with r * r at most the sum,
\* found by halving, and one more if the sum is nearer to (r + 1)^2.
RootOfSquares(p, q) ==
    LET SquarePair(x) ==
            LET xh == x \div 1000
                xl == x % 1000
                t  == 2 * xh * xl * 1000 + xl * xl
            IN  <<xh * xh + t \div 1000000, t % 1000000>>
        AddPair(a, b) ==
            <<a[1] + b[1] + (a[2] + b[2]) \div 1000000, (a[2] + b[2]) % 1000000>>
        PairAtMost(a, b) == a[1] < b[1] \/ (a[1] = b[1] /\ a[2] <= b[2])
        n == AddPair(SquarePair(Abs(p)), SquarePair(Abs(q)))
        RECURSIVE RootBetween(_, _)
        RootBetween(lo, hi) ==
            IF hi - lo <= 1 THEN lo
            ELSE LET mid == (lo + hi) \div 2
                 IN  IF PairAtMost(SquarePair(mid), n) THEN RootBetween(mid, hi)
                     ELSE RootBetween(lo, mid)
        r == RootBetween(0, 2000000)
    IN  IF PairAtMost(AddPair(SquarePair(r), <<0, r + 1>>), n) THEN r + 1 ELSE r

\* const scale = S_mag > 0 ? MAX_R / S_mag : 1, for S_mag = S * 10^e with S
\* from 56 to 2147 (or 0) and e from -320 to 0.  The quotient is Infinity
\* when it is above Number.MAX_VALUE = 1.8e308, that is for S_mag below
\* 6.7e-307: for e <= -313.  A finite scale is kept as its billionths times
\* 10^-e.
scale(S_mag, e) ==
    IF S_mag > 0
    THEN IF e <= -313 THEN Infinite
         ELSE [kind |-> "finite", v |-> DivNano(Num(MAX_R), S_mag)]
    ELSE [kind |-> "finite", v |-> One]

\* x * scale for x = P_mag or Q_mag (thousandths times 10^e).  With a finite
\* scale the powers of ten cancel.  0 * Infinity is NaN; and next to 1e-320
\* a product S_mag * cos or S_mag * sin is the double 0 when it is below
\* 2.5e-324, as the count of thousandths is 0 when it is below 1.
TimesScale(x, sc) ==
    IF sc.kind = "Infinity"
    THEN IF x.v = 0 THEN NotANumber ELSE Infinite
    ELSE Finite(MulNano(x.v, sc.v))

\* const sLen = Math.sqrt(pLen*pLen + qLen*qLen)
MathSqrtOfSquares(p, q) ==
    IF p.kind = "NaN" \/ q.kind = "NaN" THEN NotANumber
    ELSE IF p.kind = "Infinity" \/ q.kind = "Infinity" THEN Infinite
    ELSE Finite(RootOfSquares(p.v, q.v))

\* const pLenAbs = Math.abs(pLen);
\* const pRatio = pLenAbs > LINE_OFFSET ? (pLenAbs - LINE_OFFSET) / pLenAbs : 0
\* and the same for qRatio and sRatio.  NaN > LINE_OFFSET is false, and
\* (Infinity - LINE_OFFSET) / Infinity is NaN.
Ratio(len) ==
    CASE len.kind = "NaN" -> Finite(0)
      [] len.kind = "Infinity" -> NotANumber
      [] OTHER ->
            IF Abs(len.v) > Num(LINE_OFFSET)
            THEN Finite(DivNano(Abs(len.v) - Num(LINE_OFFSET), Abs(len.v)))
            ELSE Finite(0)

\* PowerTriangleDiagram: scale, pLen, qLen, sLen and the three ratios.
PowerTriangleDrawing(voltage, current) ==
    LET t == PowerTriangleDiagram(
                 [amplitude |-> voltage.amplitude.v, phase |-> voltage.phase],
                 [amplitude |-> current.amplitude.v, phase |-> current.phase])
        e == voltage.amplitude.e + current.amplitude.e
        sc == scale(t.S_mag, e)
        pLen == TimesScale(t.P_mag, sc)
        qLen == TimesScale(t.Q_mag, sc)
        sLen == MathSqrtOfSquares(pLen, qLen)
    IN  [theta |-> t.theta, S_mag |-> t.S_mag, e |-> e, scale |-> sc,
         pLen |-> pLen, qLen |-> qLen, sLen |-> sLen,
         pRatio |-> Ratio(pLen), qRatio |-> Ratio(qLen), sRatio |-> Ratio(sLen)]

\* Amplitudes of the voltage and of the current handed to the diagram.
TriangleVoltages ==
    { Amplitude(0, 0), Amplitude(Num(120), 0), Amplitude(Num(200), 0),
      Amplitude(Num(120), -160) }

TriangleCurrents ==
    { Amplitude(0, 0), Amplitude(Num(5), 0), Amplitude(Num(5), -160) }

\* Phases of the current handed to the diagram.
TriangleCurrentPhases == { 0, Num(-30), Num(90) }

\* The diagram is handed its props; the App state is left as it is.
InitTriangle ==
    /\ \E vp \in PhaseInputs, cp \in TriangleCurrentPhases,
          va \in TriangleVoltages, ca \in TriangleCurrents :
           powerTriangle = [pc |-> "props",
                            voltage |-> [amplitude |-> va, phase |-> vp],
                            current |-> [amplitude |-> ca, phase |-> cp]]
    /\ Mounted(INITIAL_STATE)
    /\ stats = NoStats
    /\ phaseLoop = NoPhaseLoop
    /\ analysis = NoAnalysis
    /\ lastOp = [op |-> "props", knob |-> "none", text |-> <<>>, calls |-> <<>>,
                 prevOffset |-> 0, sinceTick |-> 0, frozen |-> 0]

\* A render of PowerTriangleDiagram.
renderPowerTriangle ==
    /\ powerTriangle.pc = "props"
    /\ powerTriangle' =
           [pc |-> "drawn",
            voltage |-> powerTriangle.voltage,
            current |-> powerTriangle.current,
            drawing |-> PowerTriangleDrawing(powerTriangle.voltage,
                                             powerTriangle.current)]
    /\ UNCHANGED <<state, timeOffset, simSpeed, lastTime, now, inputValue,
                   isEditing, focus, stats, analysis, lastOp, lastTick,
                   frozenSinceTick, frozenElapsed, scope, phaseLoop>>

NextTriangle == renderPowerTriangle

SpecTriangle == InitTriangle /\ [][NextTriangle]_vars

-----------------------------------------------------------------------------
(* geminiService: analyzeCircuit *)

Waveforms == {"sine", "square", "triangle", "sawtooth"}

\* String.prototype.toUpperCase on a waveform name.
toUpperCase(w) ==
    CASE w = "sine" -> "SINE"
      [] w = "square" -> "SQUARE"
      [] w = "triangle" -> "TRIANGLE"
      [] w = "sawtooth" -> "SAWTOOTH"

\* Values of process.env.API_KEY: unset, empty, set.
ApiKeys == {"undefined", "", "key"}

\* if (!apiKey) throw new Error("API Key is missing")
getClientThrows(apiKey) == apiKey \in {"undefined", ""}

\* The values interpolated into the prompt template.
Prompt(st) ==
    [voltage |-> [st.voltage EXCEPT !.waveform = toUpperCase(st.voltage.waveform)],
     current |-> [st.current EXCEPT !.waveform = toUpperCase(st.current.waveform)]]

\* The record of the catch block (the explanation is written without its accents).
FALLBACK ==
    [explanation |-> "Analisis no disponible. Asegurese de que la clave API este configurada.",
     impedance |-> "--", powerFactor |-> "--", realPower |-> "--",
     reactivePower |-> "--"]

\* A response text that is the JSON of a complete analysis, and its parse.
ValidText == "{analysis}"

ValidAnalysis ==
    [explanation |-> "Carga inductiva.", impedance |-> "24.00 ohm / 30.0",
     powerFactor |-> "0.866 En atraso", realPower |-> "519.6 W",
     reactivePower |-> "300 VAR"]

\* What ai.models.generateContent may settle to: a thrown network or service
\* error, or a response with no text, an empty text, a text that is no JSON,
\* a text that is the JSON of an analysis.
Replies ==
    { [threw |-> TRUE, text |-> "undefined"],
      [threw |-> FALSE, text |-> "undefined"],
      [threw |-> FALSE, text |-> ""],
      [threw |-> FALSE, text |-> "<html>503</html>"],
      [threw |-> FALSE, text |-> ValidText] }

\* if (!text) throw ...
NoText(text) == text \in {"undefined", ""}

\* JSON.parse(text)
JSONparse(text) ==
    IF text = ValidText THEN [threw |-> FALSE, value |-> ValidAnalysis]
    ELSE [threw |-> TRUE, value |-> NoValue]

\* The states analyzeCircuit is called with.
AnalysisStates ==
    { [INITIAL_STATE EXCEPT !.voltage.waveform = vw, !.current.waveform = cw,
                            !.isPlaying = p] :
        vw \in Waveforms, cw \in Waveforms, p \in BOOLEAN }

InitAnalysis ==
    /\ \E st \in AnalysisStates : Mounted(st) /\ stats = powerStats(st)
    /\ phaseLoop = NoPhaseLoop
    /\ powerTriangle = NoTriangle
    /\ \E key \in ApiKeys : analysis = [NoAnalysis EXCEPT !.apiKey = key]
    /\ lastOp = [op |-> "mount", knob |-> "none", text |-> <<>>, calls |-> <<>>,
                 prevOffset |-> 0, sinceTick |-> 0, frozen |-> 0]

\* analyzeCircuit(state) up to its await: getClient() runs before the try
\* block, so its throw rejects the promise the async function returns.
analyzeCircuit ==
    /\ analysis.pc = "idle"
    /\ analysis' =
           IF getClientThrows(analysis.apiKey)
           THEN [analysis EXCEPT !.pc = "settled", !.outcome = "rejected",
                                 !.error = "API Key is missing",
                                 !.failure = "missing credential"]
           ELSE [analysis EXCEPT !.pc = "awaiting",
                                 !.request = <<"gemini-3-pro-preview", Prompt(state)>>]
    /\ UNCHANGED <<state, timeOffset, simSpeed, lastTime, now, inputValue,
                   isEditing, focus, stats, lastOp, lastTick, frozenSinceTick,
                   frozenElapsed, scope, phaseLoop,
                   powerTriangle>>

\* The rest of the try block and the catch block, once generateContent settles.
analyzeCircuitResume ==
    \E reply \in Replies :
        /\ analysis.pc = "awaiting"
        /\ LET parsed == JSONparse(reply.text)
               failure == IF reply.threw THEN "service error"
                          ELSE IF NoText(reply.text) THEN "empty response"
                          ELSE IF parsed.threw THEN "unparsable response"
                          ELSE "none"
           IN  analysis' =
                   [analysis EXCEPT !.pc = "settled", !.outcome = "fulfilled",
                                    !.value = IF failure = "none" THEN parsed.value
                                              ELSE FALLBACK,
                                    !.failure = failure]
        /\ UNCHANGED <<state, timeOffset, simSpeed, lastTime, now, inputValue,
                       isEditing, focus, stats, lastOp, lastTick, frozenSinceTick,
                       frozenElapsed, scope, phaseLoop,
                   powerTriangle>>

NextAnalysis ==
    \/ analyzeCircuit
    \/ analyzeCircuitResume

SpecAnalysis == InitAnalysis /\ [][NextAnalysis]_vars

-----------------------------------------------------------------------------
(* Claims *)

RawPhaseDiff == state.voltage.phase - state.current.phase

InHalfOpenTurn(d) == d > Num(-180) /\ d <= Num(180)

Status == [statusType |-> stats.statusType, statusLag |-> stats.statusLag]

Committed == lastOp.op \in {"blur", "enter"}

\* C1: the normalized phase difference of the power statistics, and theta of
\* the power triangle, lie in (-180, 180], are congruent to
\* voltagePhase - currentPhase modulo 360, and normalizing them again
\* returns them unchanged.
C1_NormalizationInRangeCongruentIdempotent ==
    lastOp.op = "render" =>
        \A d \in {stats.phaseDiffDeg, theta(state.voltage, state.current)} :
            /\ InHalfOpenTurn(d)
            /\ (d - RawPhaseDiff) % Num(360) = 0
            /\ NormalizePhase(d) = d

\* C1 witness: a raw difference of -540 or less has been normalized to +180.
C1_Witness ==
    /\ lastOp.op = "render"
    /\ RawPhaseDiff <= Num(-540)
    /\ stats.phaseDiffDeg = Num(180)

\* C2: the load is Resistive / in phase exactly when |d| < 0.1, otherwise
\* Inductive / lagging exactly when d > 0, otherwise Capacitive / leading;
\* d = 0.1 is Inductive, d = -0.1 is Capacitive, and exactly one
\* classification holds.
C2_ClassificationByPhaseDifference ==
    lastOp.op = "render" =>
        LET d == stats.phaseDiffDeg
        IN  /\ (Status = Resistive) <=> (Abs(d) < 100)
            /\ (Status = Inductive) <=> (Abs(d) >= 100 /\ d > 0)
            /\ (Status = Capacitive) <=> (Abs(d) >= 100 /\ d <= 0)
            /\ d = 100 => Status = Inductive
            /\ d = -100 => Status = Capacitive
            /\ Cardinality({c \in {Resistive, Inductive, Capacitive} : Status = c}) = 1

\* C2 witness: a phase difference of exactly 0.1 has been classified.
C2_Witness ==
    /\ lastOp.op = "render"
    /\ stats.phaseDiffDeg = 100
    /\ Status = Inductive

\* C3: analyzeCircuit never fails with an exception: whenever it settles, its
\* promise is fulfilled, and on every failure mode with the fallback record.
C3_AnalyzeCircuitNeverRejects ==
    analysis.pc = "settled" =>
        /\ analysis.outcome = "fulfilled"
        /\ analysis.failure # "none" => analysis.value = FALLBACK

\* C4: every parameter lies inside its control's range: amplitudes in [0, 200],
\* phases in [-180, 180], both frequencies in [1, 200], so frequency > 0.
C4_ParametersInRange ==
    /\ \A k \in Knobs :
           KnobMin(k) <= KnobValue(k, state) /\ KnobValue(k, state) <= KnobMax(k)
    /\ \A sig \in {state.voltage, state.current} :
           /\ 0 <= sig.amplitude /\ sig.amplitude <= Num(200)
           /\ Num(-180) <= sig.phase /\ sig.phase <= Num(180)
           /\ Num(1) <= sig.frequency /\ sig.frequency <= Num(200)
           /\ sig.frequency > 0

\* C4 witness: a text above the maximum has been committed and clamped.
C4_Witness ==
    /\ Committed
    /\ ~isNaN(parseFloat(lastOp.text))
    /\ parseFloat(lastOp.text).num > KnobMax(lastOp.knob)
    /\ KnobValue(lastOp.knob, state) = KnobMax(lastOp.knob)

\* C5: a commit of a text that parses to NaN leaves the parameter (and the
\* whole simulation state) as it was, shows that value in the text field
\* again, and no commit ever passes NaN to onChange.
C5_UnparsableCommitReverts ==
    [][ /\ \A i \in DOMAIN lastOp'.calls : ~isNaN(lastOp'.calls[i])
        /\ \A k \in Knobs :
               (/\ lastOp'.op \in {"blur", "enter"}
                /\ lastOp'.knob = k
                /\ isNaN(parseFloat(inputValue[k])))
               => /\ state' = state
                  /\ KnobValue(k, state') = KnobValue(k, state)
                  /\ inputValue'[k] = toFixed2(KnobValue(k, state))
                  /\ lastOp'.calls[1] = Number(KnobValue(k, state)) ]_vars

\* C5 witness: an unparsable text has been committed in a control whose
\* parameter was no longer at its default.
C5_Witness ==
    /\ Committed
    /\ isNaN(parseFloat(lastOp.text))
    /\ KnobValue(lastOp.knob, state) # KnobValue(lastOp.knob, INITIAL_STATE)
    /\ inputValue[lastOp.knob] = toFixed2(KnobValue(lastOp.knob, state))

FrequenciesChange ==
    \/ state'.voltage.frequency # state.voltage.frequency
    \/ state'.current.frequency # state.current.frequency

\* C6: voltage.frequency equals current.frequency in every state, and only an
\* operation of the frequency control, or reset, changes either of them.
C6_FrequenciesEqual ==
    /\ [](state.voltage.frequency = state.current.frequency)
    /\ [][FrequenciesChange => (KnobStep("freq") \/ resetSimulation)]_vars

\* C6 witness: the frequency control has committed a new frequency.
C6_Witness ==
    /\ Committed
    /\ lastOp.knob = "freq"
    /\ state.voltage.frequency = Num(200)
    /\ state.current.frequency = Num(200)

C8_FrozenTimeNeverAdded ==
    /\ [](Running(state, simSpeed) => frozenElapsed = 0)
    /\ [][ /\ (lastOp'.op = "animate" /\ ~Running(state, simSpeed))
                  => (timeOffset' = timeOffset /\ lastTime' = now')
           /\ LoopDepsChanged(state', simSpeed') => lastTime' = now' ]_vars

\* C8 witness: the first tick after a pause during which the clock advanced
\* has added only the time since the simulation resumed.
C8_Witness ==
    /\ lastOp.op = "animate"
    /\ Running(state, simSpeed)
    /\ lastOp.frozen > 0
    /\ timeOffset > lastOp.prevOffset
    /\ timeOffset - lastOp.prevOffset <= (lastOp.sinceTick - lastOp.frozen) * simSpeed

\* C9: the state after reset has voltage and current at their defaults,
\* timeWindow at its default, timeOffset = 0, simSpeed = 20, isPlaying = true.
C9_ResetRestoresDefaults ==
    lastOp.op = "reset" =>
        /\ state.voltage = DEFAULT_VOLTAGE
        /\ state.current = DEFAULT_CURRENT
        /\ state.timeWindow = INITIAL_STATE.timeWindow
        /\ state.isPlaying = TRUE
        /\ timeOffset = 0
        /\ simSpeed = 20

\* C9 witness: reset has run after simulated time had advanced.
C9_Witness ==
    /\ lastOp.op = "reset"
    /\ lastOp.prevOffset > 0

\* C10: timeOffset is never negative, and no operation other than reset
\* decreases it.
C10_TimeOffsetMonotone ==
    /\ [](timeOffset >= 0)
    /\ [][lastOp'.op # "reset" => timeOffset' >= timeOffset]_vars

\* C10 witness: a tick has increased timeOffset.
C10_Witness ==
    /\ lastOp.op = "animate"
    /\ timeOffset > lastOp.prevOffset
    /\ lastOp.prevOffset > 0

-----------------------------------------------------------------------------
(* Claims about the power statistics *)

\* What powerStats reads of a state.
PowerInputs(st) == [voltage |-> st.voltage, current |-> st.current]

\* x * x for a count of thousandths, in thousandths.
Square(x) == Times(x, x)

\* The amount by which S^2 exceeds P^2 + Q^2, in thousandths.
TriangleDefect == Square(stats.S) - (Square(stats.P.v) + Square(stats.Q.v))

\* Three thousandths of S, and three thousandths: what dropping the digits of
\* P and Q past the third can change in P^2 + Q^2.
TriangleTolerance == (3 * stats.S) \div 1000 + 3

\* C12: in the initial state and after every reset the derived power state is
\* phase difference 30 degrees, S = 600, Q = 300, P = 600 cos(30 degrees)
\* = 519.615..., Inductive / lagging; returned as "30.0", "600.00", "300.00",
\* "519.62" and power factor "0.866".
C12_DefaultPowerState ==
    lastOp.op \in {"mount", "reset"} =>
        /\ stats.phaseDiffDeg = Num(30)
        /\ stats.S = Num(600)
        /\ stats.Q.v = Num(300)
        /\ stats.P.v = 519615
        /\ stats.shown = [S |-> <<"6", "0", "0", ".", "0", "0">>,
                          P |-> <<"5", "1", "9", ".", "6", "2">>,
                          Q |-> <<"3", "0", "0", ".", "0", "0">>,
                          PF |-> <<"0", ".", "8", "6", "6">>,
                          phaseDiff |-> <<"3", "0", ".", "0">>]
        /\ Status = Inductive

\* C12 witness: reset has run on a state whose voltage phase, and with it the
\* power state, had been changed, after simulated time had advanced.
C12_Witness ==
    /\ lastOp.op = "reset"
    /\ lastOp.prevOffset > 0
    /\ now = MaxNow
    /\ stats.P.v = 519615

\* C13: when the two phases are equal, whatever the amplitudes, the phase
\* difference is 0, Q is 0, P is S (both exactly) and the classification is
\* Resistive / in phase.
C13_EqualPhasesResistive ==
    (lastOp.op = "render" /\ state.voltage.phase = state.current.phase) =>
        /\ stats.phaseDiffDeg = 0
        /\ stats.Q = [v |-> 0, exact |-> TRUE]
        /\ stats.P = [v |-> stats.S, exact |-> TRUE]
        /\ stats.S = Times(state.voltage.amplitude, state.current.amplitude)
        /\ Status = Resistive

\* C13 witness: equal phases other than 0, amplitudes 200 and 5.
C13_Witness ==
    /\ lastOp.op = "render"
    /\ state.voltage.phase = state.current.phase
    /\ state.voltage.phase = Num(720) + 100
    /\ stats.S = Num(1000)
    /\ stats.P.v = Num(1000)

\* C14 as stated: when the raw phase difference is an odd multiple of 180
\* degrees, the normalized difference is +180, P is -S and Q is 0.
C14_HalfTurnReactivePowerZero ==
    (lastOp.op = "render" /\ RawPhaseDiff % Num(360) = Num(180)) =>
        /\ stats.phaseDiffDeg = Num(180)
        /\ stats.P = [v |-> -stats.S, exact |-> TRUE]
        /\ stats.Q = [v |-> 0, exact |-> TRUE]

\* C14 as amended: when the raw phase difference is an odd multiple of 180
\* degrees, the normalized difference is +180, P is -S exactly, and Q is 0
\* within floating tolerance (returned as "0.00"), exactly 0 when S is 0.
C14_HalfTurnReactivePowerNearZero ==
    (lastOp.op = "render" /\ RawPhaseDiff % Num(360) = Num(180)) =>
        /\ stats.phaseDiffDeg = Num(180)
        /\ stats.P = [v |-> -stats.S, exact |-> TRUE]
        /\ stats.Q.v = 0
        /\ stats.shown.Q = <<"0", ".", "0", "0">>
        /\ (stats.S = 0 => stats.Q.exact)

\* C14 witness: a raw difference of -540 degrees with S = 600.
C14_Witness ==
    /\ lastOp.op = "render"
    /\ RawPhaseDiff = Num(-540)
    /\ stats.S = Num(600)
    /\ stats.phaseDiffDeg = Num(180)
    /\ stats.P.v = Num(-600)

C18_PowerStatsOfSignalsOnly ==
    stats = powerStats(PowerInputs(state))

\* C18 witness: a stopped simulation at speed 100 with advanced timeOffset,
\* whose voltage phase was set to 180 (phase difference -150).
C18_Witness ==
    /\ timeOffset > 0
    /\ simSpeed = 100
    /\ ~state.isPlaying
    /\ state.voltage.phase = Num(180)
    /\ stats.phaseDiffDeg = Num(-150)

\* C19: the statistics panel's angle, the power triangle's theta and the
\* phasor diagram's displayAngle are one value, the normalized voltage phase
\* minus current phase, and the panel and the power triangle compute the
\* same unrounded S, P and Q.
C19_ComponentsAgree ==
    lastOp.op = "render" =>
        LET t == PowerTriangleDiagram(state.voltage, state.current)
            a == displayAngle(state.voltage, state.current)
        IN  /\ stats.phaseDiffDeg = t.theta
            /\ stats.phaseDiffDeg = a
            /\ InHalfOpenTurn(a)
            /\ (a - RawPhaseDiff) % Num(360) = 0
            /\ stats.S = t.S_mag
            /\ stats.P = t.P_mag
            /\ stats.Q = t.Q_mag

\* C19 witness: a raw difference of 540.1 degrees, shown as -179.9 by all.
C19_Witness ==
    /\ lastOp.op = "render"
    /\ RawPhaseDiff = Num(540) + 100
    /\ displayAngle(state.voltage, state.current) = Num(-180) + 100
    /\ stats.S = Num(600)

-----------------------------------------------------------------------------
(* Oscilloscope.tsx *)

\* export const SAMPLE_RATE = 200
SAMPLE_RATE == 200

\* Math.SQRT2 in billionths.
MathSQRT2 == 1414213562

\* Math.sqrt(3) in billionths.
MathSqrt3 == 1732050808

\* Mutant of getPeakAmplitude: the RMS value passed on as the peak.
getPeakAmplitudeIdentity(rms, waveform) == [v |-> rms, exact |-> TRUE]

\* getPeakAmplitude(rms, waveform): thousandths, exact when no square root is
\* multiplied in or rms is 0.
getPeakAmplitude(rms, waveform) ==
    CASE waveform = "square" -> [v |-> rms, exact |-> TRUE]
      [] waveform \in {"triangle", "sawtooth"} ->
            [v |-> MulNano(rms, MathSqrt3), exact |-> rms = 0]
      [] OTHER -> [v |-> MulNano(rms, MathSQRT2), exact |-> rms = 0]

\* Mutant of MathSign: zero counted as positive.
MathSignNoZero(x) == IF x < 0 THEN -1 ELSE 1

\* Math.sign
MathSign(x) == IF x > 0 THEN 1 ELSE IF x < 0 THEN -1 ELSE 0

\* const argument = omega * t + phaseRad, in thousandths of a degree, for t in
\* units of 1/400000 s, freq in thousandths of a hertz and phaseDeg in
\* thousandths of a degree: 360 * freq * t = freq * t * 9 / 10000 of these
\* units.  A whole number for whole frequencies and t a multiple of 10.
argument(t, freq, phaseDeg) ==
    ((freq \div 1000) * t * 9) \div 10 + ((freq % 1000) * t * 9) \div 10000
    + phaseDeg

\* The double argument is 0: both omega * 0 and (0 * Math.PI) / 180 are 0.
\* In every other case omega * t + phaseRad is a multiple of pi that is not a
\* whole number, which no double equals, unless the two terms cancel.
ArgumentIsZero(t, phaseDeg) == t = 0 /\ phaseDeg = 0

\* The signs that the rounding error of the phase of the waveform (argument,
\* or shiftedT * freq for the sawtooth) can have, where the sample depends on
\* it: a square wave at a zero crossing of the sine, a sawtooth at its jump.
\* 0 stands for no error (at a crossing it needs the two terms to cancel).
\* Elsewhere the sample is the same within the resolution whatever the sign,
\* and one value stands for all.
RoundingSigns(t, freq, phaseDeg, waveform) ==
    LET md == argument(t, freq, phaseDeg)
    IN  IF ArgumentIsZero(t, phaseDeg) THEN {0}
        ELSE IF waveform = "square" /\ md = 0 THEN {-1, 0, 1}
        ELSE IF waveform = "square" /\ md % 180000 = 0 THEN {-1, 1}
        ELSE IF waveform = "sawtooth" /\ md % 360000 = 180000 THEN {-1, 1}
        ELSE {1}

\* Math.sin(argument) for an argument of md thousandths of a degree whose
\* double carries a rounding error of sign err: the value in billionths,
\* whether the double is that value exactly, and the sign of the double.  At
\* the k-th zero crossing the double is (-1)^k times the error.
MathSinArgument(md, zero, err) ==
    LET s == SinNano(md)
    IN  [v |-> s, exact |-> zero,
         sign |-> IF zero THEN 0
                  ELSE IF s > 0 THEN 1
                  ELSE IF s < 0 THEN -1
                  ELSE IF (md \div 180000) % 2 = 0 THEN err ELSE -err]

\* n / 9 in billionths for n tenths of a millionth: the slope of the two
\* linear waveforms.
Ninths(n) ==
    LET a == Abs(n)
        q == (a \div 9) * 10 + ((a % 9) * 10) \div 9
    IN  IF n < 0 THEN -q ELSE q

\* (2 / Math.PI) * Math.asin(Math.sin(argument)): the argument folded into
\* [-90, 90] degrees, over 90 degrees.
TriangleValue(md) ==
    LET r == md % 360000
        x == IF r <= 90000 THEN r
             ELSE IF r <= 270000 THEN 180000 - r
             ELSE r - 360000
    IN  Ninths(x * 10000)

\* Mutant of SawtoothValue: Math.trunc taken for Math.floor.
SawtoothValueTruncating(md, err) ==
    LET a == md + 180000
        n == IF a >= 0 THEN a \div 360000 ELSE -((-a) \div 360000)
    IN  Ninths((md - 360000 * n) * 5000)

\* 2 * ((shiftedT * freq) - Math.floor(shiftedT * freq + 0.5)), shiftedT * freq
\* being md / 360000 turns.  At the jump (half a turn) the floor is taken of
\* 1 or of the double below 1, as the error goes.
SawtoothValue(md, err) ==
    LET w == ((md + 180000) % 360000) - 180000
    IN  IF w = -180000 THEN (IF err < 0 THEN One ELSE -One)
        ELSE Ninths(w * 5000)

\* acValue of calculateSignal: billionths, and whether the double is exactly
\* that.
acValue(md, zero, waveform, err) ==
    CASE waveform = "square" ->
            [v |-> One * MathSign(MathSinArgument(md, zero, err).sign),
             exact |-> TRUE]
      [] waveform = "triangle" -> [v |-> TriangleValue(md), exact |-> zero]
      [] waveform = "sawtooth" -> [v |-> SawtoothValue(md, err), exact |-> zero]
      [] OTHER -> [v |-> MathSinArgument(md, zero, err).v, exact |-> zero]

\* calculateSignal(t_sec, peakAmp, freq, phaseDeg, dc, waveform), the rounding
\* error of the phase having sign err: (peakAmp * acValue) + dc in
\* thousandths.  The product is exact when both factors are, and when one of
\* them is 0.
calculateSignal(t, peakAmp, freq, phaseDeg, dc, waveform, err) ==
    LET ac == acValue(argument(t, freq, phaseDeg), ArgumentIsZero(t, phaseDeg),
                      waveform, err)
    IN  [v |-> MulNano(peakAmp.v, ac.v) + dc,
         exact |-> \/ peakAmp.exact /\ ac.exact
                   \/ ac.exact /\ ac.v = 0
                   \/ peakAmp.exact /\ peakAmp.v = 0]

\* for (let i = 0; i <= totalPoints; i++)
LoopIndices == 0 .. SAMPLE_RATE

\* Mutant of effectiveTime: the time offset left out.
effectiveTimeNoOffset(t_ms, off) == (t_ms * 2) \div 5

\* const t_sec = t_ms / 1000; const effectiveTime = t_sec + timeOffset, in
\* units of 1/400000 s for t_ms in thousandths of a millisecond.
effectiveTime(t_ms, off) == (t_ms * 2) \div 5 + off

\* Mutant of Convert: the peak of a sine whatever the waveform.
ConvertAsSine(sig) ==
    [rms |-> sig.amplitude, waveform |-> "sine",
     peak |-> getPeakAmplitude(sig.amplitude, "sine")]

\* const vPeak = getPeakAmplitude(voltage.amplitude, voltage.waveform), and
\* iPeak likewise: the call with its arguments and its result.
Convert(sig) ==
    [rms |-> sig.amplitude, waveform |-> sig.waveform,
     peak |-> getPeakAmplitude(sig.amplitude, sig.waveform)]

\* The arguments of one calculateSignal call of the loop.
SignalCall(name, t, peak, sig) ==
    [signal |-> name, t |-> t, peakAmp |-> peak, freq |-> sig.frequency,
     phaseDeg |-> sig.phase, dc |-> sig.dcOffset, waveform |-> sig.waveform]

\* The result of a calculateSignal call.
CallResult(c, err) ==
    calculateSignal(c.t, c.peakAmp, c.freq, c.phaseDeg, c.dc, c.waveform, err)

\* The body of the data memo for the props st and off, verr[i] and ierr[i]
\* being the rounding signs of the two samples of iteration i: the points
\* pushed, the two conversions and the calculateSignal calls in order.
Samples(st, off, verr, ierr) ==
    LET timeStep == Num(st.timeWindow) \div SAMPLE_RATE
        vPeak    == Convert(st.voltage)
        iPeak    == Convert(st.current)
        n        == Cardinality(LoopIndices)
        vCall(i) == SignalCall("voltage", effectiveTime(i * timeStep, off),
                               vPeak.peak, st.voltage)
        iCall(i) == SignalCall("current", effectiveTime(i * timeStep, off),
                               iPeak.peak, st.current)
    IN  [points |-> [k \in 1 .. n |->
                        [time |-> toFixed1((k - 1) * timeStep),
                         voltage |-> CallResult(vCall(k - 1), verr[k - 1]),
                         current |-> CallResult(iCall(k - 1), ierr[k - 1])]],
         converted |-> <<vPeak, iPeak>>,
         calls |-> [k \in 1 .. 2 * n |->
                        IF k % 2 = 1 THEN vCall((k - 1) \div 2)
                        ELSE iCall((k - 2) \div 2)]]

\* The rounding signs of the samples of one signal over the loop: every
\* combination of the signs possible at each sample.
Roundings(sig, st, off) ==
    LET timeStep == Num(st.timeWindow) \div SAMPLE_RATE
        signs(i) == RoundingSigns(effectiveTime(i * timeStep, off),
                                  sig.frequency, sig.phase, sig.waveform)
        free     == { i \in LoopIndices : -1 \in signs(i) }
        cancel   == { i \in LoopIndices : signs(i) = {-1, 0, 1} }
    IN  { [i \in LoopIndices |->
              IF i \in neg THEN -1
              ELSE IF i \in zer \/ signs(i) = {0} THEN 0
              ELSE 1] :
          neg \in SUBSET free, zer \in SUBSET cancel }

\* Props of the Oscilloscope: both waveforms, and five settings of the
\* signals (amplitude, phase, dcOffset of the voltage and of the current,
\* the common frequency, the time offset).  At 200 Hz a period is 25 samples,
\* at 100 Hz 50; at 60 Hz and time offset 1000 the current of phase -58.32
\* degrees crosses zero at the second sample; at 50 Hz a period is 100
\* samples, and a voltage of phase -324 degrees (a phase no control produces)
\* has a negative shifted time up to sample 90, shiftedT * freq + 0.5 negative
\* up to sample 40, and its sawtooth jumps at samples 40 and 140.
ScopeSettings ==
    { <<Num(120), 0, 0, Num(5), Num(-30), 0, Num(60), 0>>,
      <<Num(120), 0, 0, Num(5), Num(-30), 0, Num(200), 0>>,
      <<Num(10), Num(180), 2500, Num(5), 0, Num(-1), Num(60), 0>>,
      <<Num(200), 0, 0, Num(5), -58320, 2500, Num(60), 1000>>,
      <<0, 0, 0, Num(5), Num(90), 0, Num(100), 0>>,
      <<Num(10), Num(-324), 0, Num(5), -30500, 0, Num(50), 0>> }

ScopeState(s, vw, cw) ==
    [INITIAL_STATE EXCEPT
        !.voltage = [amplitude |-> s[1], frequency |-> s[7], phase |-> s[2],
                     dcOffset |-> s[3], waveform |-> vw],
        !.current = [amplitude |-> s[4], frequency |-> s[7], phase |-> s[5],
                     dcOffset |-> s[6], waveform |-> cw]]

InitScope ==
    /\ \E s \in ScopeSettings, vw \in Waveforms, cw \in Waveforms :
          /\ AppAt(ScopeState(s, vw, cw), s[8])
          /\ stats = powerStats(ScopeState(s, vw, cw))
    /\ scope = NoScope
    /\ phaseLoop = NoPhaseLoop
    /\ powerTriangle = NoTriangle
    /\ analysis = NoAnalysis
    /\ lastOp = [op |-> "props", knob |-> "none", text |-> <<>>, calls |-> <<>>,
                 prevOffset |-> 0, sinceTick |-> 0, frozen |-> 0]

\* const data = useMemo(() => { ... }, [state, timeOffset]): the render that
\* evaluates the memo.
data ==
    /\ lastOp.op = "props"
    /\ \E verr \in Roundings(state.voltage, state, timeOffset),
          ierr \in Roundings(state.current, state, timeOffset) :
          scope' = Samples(state, timeOffset, verr, ierr)
    /\ lastOp' = AppOp("render")
    /\ UNCHANGED <<state, timeOffset, simSpeed, lastTime, now, inputValue,
                   isEditing, focus, stats, analysis, lastTick, frozenSinceTick,
                   frozenElapsed, phaseLoop,
                   powerTriangle>>

NextScope == data

SpecScope == InitScope /\ [][NextScope]_vars

-----------------------------------------------------------------------------
(* Claims about the oscilloscope samples *)

\* The time stamp of a point, in thousandths of a millisecond.
StampOf(point) == parseFloat(point.time).num

\* Some rounding of the phase gives calculateSignal, at time t and with the
\* converted peak, the value sample for the signal sig.
IsSampleAt(sample, t, sig) ==
    \E err \in RoundingSigns(t, sig.frequency, sig.phase, sig.waveform) :
        sample = calculateSignal(t, getPeakAmplitude(sig.amplitude, sig.waveform),
                                 sig.frequency, sig.phase, sig.dcOffset,
                                 sig.waveform, err)

\* C11: the evaluated data memo has SAMPLE_RATE + 1 = 201 entries; the time
\* stamp of entry i (from 0) is i * timeWindow / 200 milliseconds, so the
\* stamps increase from 0 to timeWindow; and the voltage and the current of
\* entry i are the samples of the two signals at the time stamp, in seconds,
\* plus timeOffset.
C11_SamplesCoverWindow ==
    scope # NoScope =>
        /\ Len(scope.points) = SAMPLE_RATE + 1
        /\ Len(scope.points) = 201
        /\ \A i \in 0 .. 200 :
              /\ ~isNaN(parseFloat(scope.points[i + 1].time))
              /\ StampOf(scope.points[i + 1]) * 200 = i * Num(state.timeWindow)
              /\ IsSampleAt(scope.points[i + 1].voltage,
                            (StampOf(scope.points[i + 1]) * 2) \div 5 + timeOffset,
                            state.voltage)
              /\ IsSampleAt(scope.points[i + 1].current,
                            (StampOf(scope.points[i + 1]) * 2) \div 5 + timeOffset,
                            state.current)
        /\ \A i \in 1 .. 200 :
              StampOf(scope.points[i]) < StampOf(scope.points[i + 1])
        /\ StampOf(scope.points[1]) = 0
        /\ StampOf(scope.points[201]) = Num(state.timeWindow)

\* C11 witness: a memo evaluated at a time offset other than 0, whose last
\* stamp is "40.0" and whose second current sample, a square wave at its zero
\* crossing, is the dcOffset.
C11_Witness ==
    /\ scope # NoScope
    /\ timeOffset = 1000
    /\ state.current.waveform = "square"
    /\ scope.points[201].time = <<"4", "0", ".", "0">>
    /\ scope.points[2].time = <<"0", ".", "2">>
    /\ scope.points[2].current = [v |-> 2500, exact |-> TRUE]
    /\ scope.points[1].current.v = Num(-5) + 2500

\* The calculateSignal calls of the evaluated memo made at t = 0 with phase 0,
\* as positions in scope.calls.
CallsAtOrigin ==
    { k \in 1 .. Len(scope.calls) :
        scope.calls[k].t = 0 /\ scope.calls[k].phaseDeg = 0 }

\* The sample that the k-th call of the memo returned.
SampleOfCall(k) ==
    IF k % 2 = 1 THEN scope.points[(k + 1) \div 2].voltage
    ELSE scope.points[k \div 2].current

\* C16: a calculateSignal call at t = 0 with phase 0 returns the dcOffset
\* exactly, whatever the waveform, the peak amplitude and the (positive)
\* frequency; a square wave does because Math.sign(0) is 0.
C16_OriginSampleIsDcOffset ==
    \A k \in CallsAtOrigin :
        /\ scope.calls[k].freq > 0
        /\ SampleOfCall(k) = [v |-> scope.calls[k].dc, exact |-> TRUE]

\* C16 witness: a square wave of peak 5 and dcOffset -1 sampled at t = 0 with
\* phase 0 gave -1.
C16_Witness ==
    /\ scope # NoScope
    /\ 2 \in CallsAtOrigin
    /\ scope.calls[2].waveform = "square"
    /\ scope.calls[2].peakAmp = [v |-> Num(5), exact |-> TRUE]
    /\ scope.calls[2].dc = Num(-1)
    /\ scope.points[1].current = [v |-> Num(-1), exact |-> TRUE]

\* The crest factor squared that the peak of a conversion shows, within the
\* resolution of the thousandths: peak^2 against n * rms^2.
PeakSquaredIs(g, n) ==
    Abs(Times(g.peak.v, g.peak.v) - n * Times(g.rms, g.rms))
        <= (2 * n * g.peak.v) \div 1000 + 2 * n

SamplesPerPeriod(sig) ==
    LET step == effectiveTime(Num(state.timeWindow) \div SAMPLE_RATE, 0)
    IN  IF /\ sig.dcOffset = 0
           /\ 400000000 % sig.frequency = 0
           /\ (400000000 \div sig.frequency) % step = 0
           /\ (400000000 \div sig.frequency) \div step <= SAMPLE_RATE
        THEN (400000000 \div sig.frequency) \div step
        ELSE 0

\* The sum of the squares of the first n samples of the signal name.
RECURSIVE SumOfSquares(_, _)
SumOfSquares(name, n) ==
    IF n = 0 THEN 0
    ELSE SumOfSquares(name, n - 1)
         + Times(scope.points[n][name].v, scope.points[n][name].v)

\* n times the distance between the mean square of the samples of one period
\* and rms^2.
RoundTripDefect(name) ==
    LET n == SamplesPerPeriod(state[name])
    IN  Abs(SumOfSquares(name, n)
            - n * Times(state[name].amplitude, state[name].amplitude))

\* What the thousandths of the n samples leave undecided in that sum.
RoundTripResolution(name) ==
    LET n == SamplesPerPeriod(state[name])
    IN  n * ((4 * getPeakAmplitude(state[name].amplitude,
                                   state[name].waveform).v) \div 1000 + 2)

\* C20 as stated: the root mean square of the samples of one period of a
\* signal of RMS amplitude rms and dcOffset 0, sampled with the peak that
\* getPeakAmplitude returns, is rms (the mean square is rms^2).
C20_RoundTripExact ==
    \A name \in {"voltage", "current"} :
        scope # NoScope /\ SamplesPerPeriod(state[name]) > 0
            => RoundTripDefect(name) <= RoundTripResolution(name)

\* C20 amended: the mean square of the N samples of one period of a signal of
\* RMS amplitude rms and dcOffset 0, sampled with the peak that
\* getPeakAmplitude returns, is within rms^2 / N of rms^2.
C20_RoundTripWithinSampling ==
    \A name \in {"voltage", "current"} :
        scope # NoScope /\ SamplesPerPeriod(state[name]) > 0
            => RoundTripDefect(name)
                  <= Times(state[name].amplitude, state[name].amplitude)
                     + RoundTripResolution(name)

\* C20 witness: a square voltage of 120 V RMS at 200 Hz, phase 0, sampled over
\* its period of 25 samples, the first of which is 0: the mean square is
\* 24/25 of 120^2.
C20_Witness ==
    /\ scope # NoScope
    /\ state.voltage.waveform = "square"
    /\ state.voltage.amplitude = Num(120)
    /\ SamplesPerPeriod(state.voltage) = 25
    /\ scope.points[1].voltage = [v |-> 0, exact |-> TRUE]
    /\ SumOfSquares("voltage", 25) = 24 * Num(14400)
    /\ SamplesPerPeriod(state.current) = 25
    /\ state.current.waveform = "sine"


-----------------------------------------------------------------------------
(* Claims about the state updates and the controls *)

\* The field of a signal that a parameter control updates.
KnobField(k) ==
    CASE k \in {"vAmp", "iAmp"} -> "amplitude"
      [] k \in {"vPhase", "iPhase"} -> "phase"
      [] k = "freq" -> "frequency"

\* Partial updates of a signal: one field, two fields, none.
PartialUpdates ==
    { [amplitude |-> Num(7)], [phase |-> Num(-90)],
      [amplitude |-> 0, phase |-> Num(45)], [dcOffset |-> 2500],
      [f \in {} |-> 0] }

\* The record next is the record prev with the fields of updates merged into
\* its field name, and nothing else changed.
MergedInto(next, prev, name, updates) ==
    /\ DOMAIN next = DOMAIN prev
    /\ DOMAIN next[name] = DOMAIN prev[name]
    /\ \A f \in DOMAIN prev[name] :
          next[name][f] = IF f \in DOMAIN updates THEN updates[f] ELSE prev[name][f]
    /\ \A g \in DOMAIN prev \ {name} : next[g] = prev[g]

\* The App state outside the signal name is the same before and after the
\* step, and so is every field of the signal but field.
OnlyFieldChanges(name, field) ==
    /\ \A f \in DOMAIN state[name] \ {field} : state'[name][f] = state[name][f]
    /\ \A g \in DOMAIN state \ {name} : state'[g] = state[g]
    /\ timeOffset' = timeOffset
    /\ simSpeed' = simSpeed

\* C21: updateVoltage changes only the voltage fields named in the update and
\* leaves every other voltage field, all current fields, timeWindow,
\* isPlaying, timeOffset and simSpeed unchanged, and updateCurrent likewise:
\* for every partial update of every state, and for every operation of the
\* amplitude and phase controls, which call them.
C21_PartialUpdateMergesFields ==
    /\ [](\A u \in PartialUpdates :
            /\ MergedInto(updateVoltage(state, u), state, "voltage", u)
            /\ MergedInto(updateCurrent(state, u), state, "current", u))
    /\ [][ /\ \A k \in {"vAmp", "vPhase"} :
                OnlyFieldChanges("voltage", KnobField(k)) \/ ~KnobStep(k)
           /\ \A k \in {"iAmp", "iPhase"} :
                OnlyFieldChanges("current", KnobField(k)) \/ ~KnobStep(k) ]_vars

\* C21 witness: the voltage amplitude control has committed 200 in a state
\* whose voltage phase and current amplitude were no longer at their
\* defaults, and they are as they were.
C21_Witness ==
    /\ lastOp.op = "blur"
    /\ lastOp.knob = "vAmp"
    /\ state.voltage.amplitude = Num(200)
    /\ state.voltage.phase = -125
    /\ state.current.amplitude = Num(200)
    /\ state.current.phase = Num(-30)


-----------------------------------------------------------------------------
(* Claims about calculateSignal *)

\* The phase of the waveform at a call, in thousandths of a degree.
ArgumentOf(c) == argument(c.t, c.freq, c.phaseDeg)

\* The values acValue can take at a call, one for each rounding of the phase.
AcValuesOf(c) ==
    { acValue(ArgumentOf(c), ArgumentIsZero(c.t, c.phaseDeg), c.waveform, err).v :
        err \in RoundingSigns(c.t, c.freq, c.phaseDeg, c.waveform) }

\* The phase of a sawtooth call lies on the jump of the ramp: shiftedT * freq
\* is a whole number and a half.
AtJump(c) == c.waveform = "sawtooth" /\ ArgumentOf(c) % 360000 = 180000

\* The sawtooth of a call lies in [-1, 1) for each rounding of the phase.  At
\* the jump, with the phase rounded below it by e, the double is 1 - 2e: below
\* 1, and One at the resolution of the billionths.
SawtoothHalfOpen(c) ==
    \A err \in RoundingSigns(c.t, c.freq, c.phaseDeg, c.waveform) :
        /\ SawtoothValue(ArgumentOf(c), err) >= -One
        /\ \/ SawtoothValue(ArgumentOf(c), err) < One
           \/ AtJump(c) /\ err < 0

\* The samples of the memo that one period of the signal sig takes, when that
\* is a whole number; otherwise 0.
PeriodInSamples(sig) ==
    LET step == effectiveTime(Num(state.timeWindow) \div SAMPLE_RATE, 0)
    IN  IF 400000000 % sig.frequency = 0 /\ (400000000 \div sig.frequency) % step = 0
        THEN (400000000 \div sig.frequency) \div step
        ELSE 0

\* The position in scope.calls of the call that sampled the signal name in
\* iteration i of the loop.
CallOf(name, i) == IF name = "voltage" THEN 2 * i + 1 ELSE 2 * i + 2

\* The iterations i of the loop, for a sawtooth signal name, that have an
\* iteration one period later in the loop.
ShiftableSamples(name) ==
    IF scope # NoScope /\ state[name].waveform = "sawtooth"
                       /\ PeriodInSamples(state[name]) > 0
    THEN 0 .. (SAMPLE_RATE - PeriodInSamples(state[name]))
    ELSE {}

\* For every call of the memo, the AC component lies in [-1, 1], the value
\* returned minus the dcOffset has a magnitude of at most peakAmp, and the
\* sawtooth lies in [-1, 1).
SignalsBounded ==
    \A k \in 1 .. Len(scope.calls) :
        /\ \A a \in AcValuesOf(scope.calls[k]) : -One <= a /\ a <= One
        /\ Abs(SampleOfCall(k).v - scope.calls[k].dc) <= scope.calls[k].peakAmp.v
        /\ scope.calls[k].waveform = "sawtooth" => SawtoothHalfOpen(scope.calls[k])

\* C22 as stated: the AC component that calculateSignal computes lies in
\* [-1, 1] and the value returned minus the dcOffset has a magnitude of at
\* most peakAmp, for every waveform, time and phase; the sawtooth lies in
\* [-1, 1), negative shifted times included, and is unchanged when the time is
\* shifted by a whole number of periods.
C22_BoundedAndPeriodic ==
    /\ SignalsBounded
    /\ \A name \in {"voltage", "current"} :
          \A i \in ShiftableSamples(name) :
              scope.points[i + 1][name]
                  = scope.points[i + PeriodInSamples(state[name]) + 1][name]

\* C22 amended: the same bounds; and a shift of the time by a whole number of
\* periods leaves the sawtooth unchanged within the resolution, except at the
\* jump of the ramp, where the rounding of the phase decides between the two
\* ends: each of the two samples is then peakAmp above or below the dcOffset.
C22_BoundedAndPeriodicButAtJump ==
    /\ SignalsBounded
    /\ \A name \in {"voltage", "current"} :
          \A i \in ShiftableSamples(name) :
              LET j == i + PeriodInSamples(state[name])
                  c == scope.calls[CallOf(name, i)]
              IN  IF AtJump(c)
                  THEN /\ AtJump(scope.calls[CallOf(name, j)])
                       /\ \A n \in {i, j} :
                             Abs(scope.points[n + 1][name].v - c.dc) = c.peakAmp.v
                  ELSE scope.points[i + 1][name].v = scope.points[j + 1][name].v

\* C22 witness: a sawtooth voltage of 10 V RMS (peak 17.32) at 50 Hz and phase
\* -324 degrees: the first sample, at shiftedT * freq = -0.9, is 0.2 of the
\* peak, as is the sample one period later; the sample at the jump of the ramp
\* is just below the peak and the sample one period later is minus the peak.
C22_Witness ==
    /\ scope # NoScope
    /\ state.voltage.waveform = "sawtooth"
    /\ state.voltage.phase = Num(-324)
    /\ PeriodInSamples(state.voltage) = 100
    /\ scope.calls[1].t = 0
    /\ scope.points[1].voltage.v = 3464
    /\ scope.points[101].voltage.v = 3464
    /\ scope.points[41].voltage.v = 17320
    /\ scope.points[141].voltage.v = -17320


-----------------------------------------------------------------------------
(* Claims about the phase-normalization loops *)

\* C23: the two phase-normalization loops terminate for every finite phase
\* difference, however large its magnitude; and for two phases produced by the
\* controls (each in [-180, 180], so the raw difference is in [-360, 360])
\* each loop runs at most one iteration.
C23_LoopsTerminate ==
    /\ <>(phaseLoop.pc = "done")
    /\ [](phaseLoop.fromControls =>
             /\ phaseLoop.ups <= 1
             /\ phaseLoop.downs <= 1
             /\ Abs(state.voltage.phase - state.current.phase) <= Num(360))

\* The part of C23 about the phases that the controls produce, and the value
\* the loops end with for the phase differences the model's numbers hold.
C23_ControlPhasesOneIteration ==
    /\ phaseLoop.fromControls =>
          /\ phaseLoop.ups <= 1
          /\ phaseLoop.downs <= 1
          /\ Abs(state.voltage.phase - state.current.phase) <= Num(360)
    /\ (phaseLoop.pc = "done" /\ phaseLoop.x.huge = 0) =>
          phaseLoop.x.v = NormalizePhase(state.voltage.phase - state.current.phase)

\* C23 witness: the first loop has run MaxIterations times or more on a phase
\* difference below -2^62, which is what it was before the first iteration.
C23_Witness ==
    /\ phaseLoop.pc = "first"
    /\ phaseLoop.x = Huge(-1)
    /\ AtMostMinus180(phaseLoop.x)
    /\ phaseLoop.ups = MaxIterations

\* A run of the loops from two control phases that took one iteration.
C23_ControlPhasesWitness ==
    /\ phaseLoop.pc = "done"
    /\ phaseLoop.fromControls
    /\ state.voltage.phase = Num(-180)
    /\ state.current.phase = Num(180)
    /\ phaseLoop.ups = 1
    /\ phaseLoop.x = LoopNumber(0)


-----------------------------------------------------------------------------
(* Claims about the arc of the phasor diagram *)

\* The flags of the arc are 0 and 0, or 0 and 1, and the arc spans at most
\* half a turn.
ArcWithinHalfTurn ==
    /\ Abs(delta(state.voltage, state.current)) <= Num(180)
    /\ largeArcFlag(state.voltage, state.current) = 0
    /\ sweepFlag(state.voltage, state.current) \in {0, 1}

\* C24 as stated: delta is the negation of displayAngle for every pair of
\* phases, so that the sweep flag is 0 exactly when displayAngle is negative;
\* and the large-arc flag is 0, because |delta| never exceeds 180.
C24_DeltaNegatesDisplayAngle ==
    lastOp.op = "render" =>
        /\ delta(state.voltage, state.current)
              = -displayAngle(state.voltage, state.current)
        /\ sweepFlag(state.voltage, state.current) = 0
              <=> displayAngle(state.voltage, state.current) < 0
        /\ ArcWithinHalfTurn

\* C24 amended: delta is the negation of displayAngle unless the two phases
\* are half a turn apart, where both are +180; so the sweep flag is 0 exactly
\* when displayAngle is negative or +180; and the large-arc flag is 0, because
\* |delta| never exceeds 180.
C24_DeltaNegatesDisplayAngleButAtHalfTurn ==
    lastOp.op = "render" =>
        LET a == displayAngle(state.voltage, state.current)
            d == delta(state.voltage, state.current)
        IN  /\ a # Num(180) => d = -a
            /\ a = Num(180) <=> RawPhaseDiff % Num(360) = Num(180)
            /\ a = Num(180) => d = Num(180)
            /\ sweepFlag(state.voltage, state.current) = 0
                  <=> (a < 0 \/ a = Num(180))
            /\ ArcWithinHalfTurn

\* C24 witness: the voltage at +180 degrees and the current at 0: delta and
\* displayAngle are both +180 and the sweep flag is 0.
C24_Witness ==
    /\ lastOp.op = "render"
    /\ state.voltage.phase = Num(180)
    /\ state.current.phase = 0
    /\ displayAngle(state.voltage, state.current) = Num(180)
    /\ delta(state.voltage, state.current) = Num(180)
    /\ sweepFlag(state.voltage, state.current) = 0


\* C25: the phasor diagram draws the arc and its label exactly when the load
\* is classified Inductive or Capacitive, and hides them exactly when it is
\* classified Resistive.
C25_ArcShownWhenNotResistive ==
    lastOp.op = "render" =>
        (arcShown(state.voltage, state.current) <=> Status # Resistive)

\* Away from a phase difference of exactly 0.1 degrees in magnitude the arc
\* and the classification agree; at 0.1 the arc is hidden and the load is
\* Inductive or Capacitive.
ArcShownWhenNotResistiveButAtBoundary ==
    lastOp.op = "render" =>
        /\ Abs(stats.phaseDiffDeg) # 100
              => (arcShown(state.voltage, state.current) <=> Status # Resistive)
        /\ Abs(stats.phaseDiffDeg) = 100
              => (~arcShown(state.voltage, state.current) /\ Status # Resistive)

\* C25 witness: the voltage 0.1 degrees ahead of the current: the load is
\* Inductive and the arc is not drawn.
C25_Witness ==
    /\ lastOp.op = "render"
    /\ stats.phaseDiffDeg = 100
    /\ Status = Inductive
    /\ ~arcShown(state.voltage, state.current)


-----------------------------------------------------------------------------
(* Claims about the classification and the reactive power *)

\* The state with other amplitudes and the same phases.
WithAmplitudes(va, ca) ==
    [state EXCEPT !.voltage.amplitude = va, !.current.amplitude = ca]

\* C26: Inductive implies Q >= 0 and Capacitive implies Q <= 0, a load with
\* Q > 0 is never Capacitive and one with Q < 0 never Inductive; the
\* classification is the same for every pair of amplitudes, and one is
\* reported when an amplitude is 0 and S, P and Q are 0.
C26_ClassificationAgreesWithReactivePower ==
    lastOp.op = "render" =>
        /\ Status = Inductive => stats.Q.v >= 0
        /\ Status = Capacitive => stats.Q.v <= 0
        /\ stats.Q.v > 0 => Status # Capacitive
        /\ stats.Q.v < 0 => Status # Inductive
        /\ \A va \in VoltageAmplitudes, ca \in CurrentAmplitudes :
              LET other == powerStats(WithAmplitudes(va, ca))
              IN  /\ other.statusType = stats.statusType
                  /\ other.statusLag = stats.statusLag
        /\ (state.voltage.amplitude = 0 \/ state.current.amplitude = 0) =>
              /\ stats.S = 0
              /\ stats.P = [v |-> 0, exact |-> TRUE]
              /\ stats.Q = [v |-> 0, exact |-> TRUE]
              /\ Status \in {Resistive, Inductive, Capacitive}
              /\ Status = Classify(stats.phaseDiffDeg)

\* C26 witness: a voltage of amplitude 0 behind the current by 30.5 degrees is
\* reported as Capacitive with S = P = Q = 0.
C26_Witness ==
    /\ lastOp.op = "render"
    /\ state.voltage.amplitude = 0
    /\ state.current.amplitude = Num(5)
    /\ stats.phaseDiffDeg < 0
    /\ stats.S = 0
    /\ stats.Q.v = 0
    /\ Status = Capacitive


-----------------------------------------------------------------------------
(* Claims about the fields no operation writes *)

\* The fields of a simulation state that the constants set and no handler
\* names: both waveforms, both DC offsets and the time window.
FixedFields(st) ==
    /\ st.voltage.waveform = "sine"
    /\ st.current.waveform = "sine"
    /\ st.voltage.dcOffset = 0
    /\ st.current.dcOffset = 0
    /\ st.timeWindow = 40

\* The fields of a simulation state that some handler writes.
WrittenFields(st) ==
    <<st.voltage.amplitude, st.voltage.phase, st.voltage.frequency,
      st.current.amplitude, st.current.phase, st.current.frequency,
      st.isPlaying>>

\* C27: after any sequence of operations both signals have waveform 'sine'
\* and dcOffset 0 and timeWindow is 40, whichever control is operated next
\* and with whichever value; a step changes nothing of the state but
\* amplitude, phase, frequency, isPlaying, simSpeed and timeOffset.
C27_FixedFieldsNeverChange ==
    /\ [](/\ FixedFields(state)
          /\ \A k \in Knobs : \A v \in {KnobMin(k), KnobMax(k), Num(60)} :
                FixedFields(KnobOnChange(k, state, v)))
    /\ [][ \/ state' = state
           \/ /\ WrittenFields(state') # WrittenFields(state)
              /\ FixedFields(state') ]_vars

\* C27 witness: the voltage phase has been changed, the speed set, the
\* simulation has advanced and been paused, and the fields are as mounted.
C27_Witness ==
    /\ state.voltage.phase # 0
    /\ simSpeed # DEFAULT_SIM_SPEED
    /\ timeOffset > 0
    /\ ~state.isPlaying
    /\ lastOp.op = "togglePlay"
    /\ FixedFields(state)


-----------------------------------------------------------------------------
(* Claims about committing a control twice *)

\* The text of control k is the one its last commit or its effect left:
\* nothing else has been typed since.
TextAsCommitted(k) == inputValue[k] = toFixed2(KnobValue(k, state))

\* Enter commits twice from one render: both calls pass the same number, and
\* the parameter is that number.
EnterCommitsSameValueTwice ==
    lastOp.op = "enter" =>
        /\ Len(lastOp.calls) = 2
        /\ lastOp.calls[1] = lastOp.calls[2]
        /\ KnobValue(lastOp.knob, state) = lastOp.calls[2].num

\* C28: a commit with no edit since the previous commit passes the same value
\* to onChange and leaves the parameter as it was: the second commit of Enter,
\* and a blur or Enter after a focus with nothing typed.
C28_CommitIdempotent ==
    /\ []EnterCommitsSameValueTwice
    /\ [][ \A k \in Knobs :
              ((onBlur(k) \/ handleKeyDown(k)) /\ TextAsCommitted(k)) =>
                  /\ state' = state
                  /\ \A i \in 1..Len(lastOp'.calls) :
                        lastOp'.calls[i] = Number(KnobValue(k, state)) ]_vars

\* The same for a parameter with at most two decimals, which its text holds
\* in full.
CommitIdempotentAtTwoDecimals ==
    [][ \A k \in Knobs :
           ((onBlur(k) \/ handleKeyDown(k)) /\ TextAsCommitted(k)
               /\ KnobValue(k, state) % 10 = 0) =>
               /\ state' = state
               /\ \A i \in 1..Len(lastOp'.calls) :
                     lastOp'.calls[i] = Number(KnobValue(k, state)) ]_vars

\* C28 witness: the voltage phase committed as -0.125 was shown as "-0.13",
\* and the next blur, with nothing typed, has committed -0.13.
C28_Witness ==
    /\ lastOp.op = "blur"
    /\ lastOp.knob = "vPhase"
    /\ lastOp.text = <<"-", "0", ".", "1", "3">>
    /\ lastOp.calls = <<Number(-130)>>
    /\ state.voltage.phase = -130


-----------------------------------------------------------------------------
(* Claims about the editing flag of a control *)

\* Values a parameter is given from outside its control's text field.
OutsideValues(k) == {KnobMin(k), KnobMax(k), Num(60), 12340}

\* C29: the editing flag of a control is true exactly from its focus to its
\* next commit; while it is true, a change of the parameter from elsewhere
\* leaves the typed text as it is; and whenever it is false the text is the
\* parameter formatted to two decimals.
C29_EditingFlagGuardsText ==
    /\ [](\A k \in Knobs :
            /\ isEditing[k] <=> focus = k
            /\ (Committed /\ lastOp.knob = k) => ~isEditing[k]
            /\ isEditing[k] =>
                  \A v \in OutsideValues(k) :
                      SyncInputValue(k, KnobOnChange(k, state, v), isEditing,
                                     inputValue) = inputValue[k]
            /\ ~isEditing[k] => inputValue[k] = toFixed2(KnobValue(k, state)))
    /\ [][ \A k \in Knobs :
              isEditing'[k] # isEditing[k] =>
                  IF isEditing'[k]
                  THEN focus = "none" /\ focus' = k /\ state' = state
                                      /\ inputValue' = inputValue
                  ELSE focus = k /\ focus' = "none" /\ Committed'
                                 /\ lastOp'.knob = k ]_vars

\* C29 witness: the current phase control is being edited, its text is what
\* was typed and not the parameter's, and the other controls show their
\* parameters.
C29_Witness ==
    /\ isEditing["iPhase"]
    /\ focus = "iPhase"
    /\ inputValue["iPhase"] = <<"2", "5", "0", ".", "5", "V">>
    /\ inputValue["iPhase"] # toFixed2(state.current.phase)
    /\ state.voltage.phase = -125
    /\ inputValue["vPhase"] = <<"-", "0", ".", "1", "3">>
    /\ ~isEditing["vPhase"]


-----------------------------------------------------------------------------
(* Claims about the auto-scaling of the power triangle *)

\* A length and its arrow-shortening ratio: the ratio is a number in [0, 1),
\* and 0 when the length is at most LINE_OFFSET.
RatioInUnitInterval(len, ratio) ==
    /\ ratio.kind = "finite"
    /\ 0 <= ratio.v /\ ratio.v < One
    /\ (len.kind = "finite" /\ Abs(len.v) <= Num(LINE_OFFSET)) => ratio.v = 0
    /\ (len.kind = "finite" /\ Abs(len.v) > Num(LINE_OFFSET)) => ratio.v > 0

\* The drawing d is inside the radius: for S > 0 the scale times S is MAX_R,
\* the hypotenuse is MAX_R and the legs are at most MAX_R; for S = 0 the
\* scale is 1 and the lengths are 0; and the three ratios are in [0, 1).
\* (A product and the hypotenuse are compared to the thousandth: the digits
\* dropped from the scale, pLen and qLen can change the third decimal by 1.)
TriangleInside(d) ==
    /\ d.scale.kind = "finite"
    /\ d.S_mag > 0 =>
          /\ Abs(MulNano(d.S_mag, d.scale.v) - Num(MAX_R)) <= 1
          /\ d.sLen.kind = "finite"
          /\ Abs(d.sLen.v - Num(MAX_R)) <= 1
          /\ d.pLen.kind = "finite" /\ Abs(d.pLen.v) <= Num(MAX_R)
          /\ d.qLen.kind = "finite" /\ Abs(d.qLen.v) <= Num(MAX_R)
    /\ d.S_mag = 0 =>
          /\ d.scale = Finite(One)
          /\ d.pLen = Finite(0) /\ d.qLen = Finite(0) /\ d.sLen = Finite(0)
    /\ RatioInUnitInterval(d.pLen, d.pRatio)
    /\ RatioInUnitInterval(d.qLen, d.qRatio)
    /\ RatioInUnitInterval(d.sLen, d.sRatio)

\* C30: the auto-scaling never divides by zero and keeps the drawing inside
\* its radius: for S > 0 the scale is MAX_R / S, the hypotenuse is MAX_R = 120
\* and |pLen| and |qLen| are at most 120; for S = 0 the scale is 1 and the
\* three lengths are 0; each ratio is in [0, 1), and 0 for a vector not longer
\* than LINE_OFFSET = 12.
C30_ScalingKeepsTriangleInside ==
    powerTriangle.pc = "drawn" => TriangleInside(powerTriangle.drawing)

\* The same whenever MAX_R / S_mag is a finite double.
ScalingKeepsTriangleInsideWhenScaleFinite ==
    (powerTriangle.pc = "drawn" /\ powerTriangle.drawing.e > -313)
        => TriangleInside(powerTriangle.drawing)

\* C30 witness: amplitudes 1.2e-158 and 5e-160 at 30 degrees: S_mag is above
\* 0, the scale and the three lengths are Infinity and the ratios NaN.
C30_Witness ==
    /\ powerTriangle.pc = "drawn"
    /\ powerTriangle.voltage.amplitude = Amplitude(Num(120), -160)
    /\ powerTriangle.current.amplitude = Amplitude(Num(5), -160)
    /\ powerTriangle.drawing.theta = Num(30)
    /\ powerTriangle.drawing.S_mag > 0
    /\ powerTriangle.drawing.scale = Infinite
    /\ powerTriangle.drawing.pLen = Infinite
    /\ powerTriangle.drawing.qLen = Infinite
    /\ powerTriangle.drawing.sLen = Infinite
    /\ powerTriangle.drawing.sRatio = NotANumber


=============================================================================
